---- MODULE Spec2Model ----
(***************************************************************************)
(* Watch-processing pipeline of sale_backend: the target store             *)
(* (database/db.js, database/availabilityDb.js), the watch processor       *)
(* (scheduler/processUrls.js, scheduler/processAvailabilityUrls.js), the   *)
(* notification dispatcher (notifications/emailSender.js,                  *)
(* notifications/availabilityEmailSender.js) and the registration and      *)
(* unsubscribe handlers.                                                   *)
(*                                                                         *)
(* The price-watch and the availability-watch pipeline keep disjoint       *)
(* tables and their store functions, processors and dispatchers are the    *)
(* same text up to table and column names; the model follows the           *)
(* price-watch names (monitored_urls, is_on_sale, ...), and SpecTwin runs  *)
(* the availability-watch pipeline, modelled from its own text, beside it. *)
(*                                                                         *)
(* Every awaited store statement is one step: other handlers may run       *)
(* between two statements, and a statement may fail (the driver throws).   *)
(* Store calls the code does not await (recordFailedScreenshotAttempt and  *)
(* deactivateOldUrls in the processor) are statements in flight: they are  *)
(* executed, or fail, at some later step.                                  *)
(***************************************************************************)
EXTENDS Integers, Sequences, FiniteSets, TLC

\* ---------------------------------------------------------------- bounds
\* urls, and users, of every specification but SpecDispatch and SpecDue
MaxUrls == 1
MaxUsers == 1
\* Spec: screenshots taken, clock moves, and mails accepted before the last
\* dispatch run starts
MaxShots == 2
MaxTicks == 1
MaxMails == 1
\* SpecCycle and SpecOutcome: cycles of the one target, and clock moves
MaxCycles == 3
MaxCycleTicks == 2
\* SpecDispatch: subscribers, unsent results, and mails accepted per result and
\* subscriber before the last dispatch run starts
MaxSubscribers == 2
MaxResults == 2
MaxResend == 2
\* SpecDue: rows of the table
MaxRows == 13
\* SpecBatch: due targets of the batch, and batch runs
MaxBatchUrls == 2
MaxBatches == 1

\* SpecSweep: rows of the table, and runs of the processor
MaxSweepRows == 2
MaxSweepRuns == 1
\* SpecShot: calls of takeScreenshot
MaxCaptures == 2
\* SpecParse: characters of a classifier output
MaxOutputLen == 5

\* ------------------------------------------------------ program constants
\* minSizeKB = 10, the default of takeScreenshot
MinSizeKB == 10
\* stats.size / 1024 of getFileSizeInKB
BytesPerKB == 1024
\* maxRetries = 3 of the navigation of the second attempt
MaxRetries == 3
\* failed_attempts >= 3 deactivates (db.js:147)
FailureThreshold == 3
\* LIMIT 10 of the due selection (db.js:94)
BatchLimit == 10
\* DATEDIFF(NOW(), created_at) > 90 (db.js:437)
MaxAgeDays == 90
\* the clock counts minutes; TIMESTAMPDIFF(HOUR, ...) counts whole hours (db.js:92)
MinutesPerHour == 60
\* DATEDIFF counts calendar days (db.js:437)
MinutesPerDay == 1440
\* last_checked DATETIME is nullable (schema.sql); NULL is no time of the clock
NULL == -1

Urls == 1..MaxUrls
Users == 1..MaxUsers
Subscribers == 1..MaxSubscribers
\* '6hr' and '12hr' of the frequencyMap of api/registerUrl.js
FrequencyHours == {6, 12}
\* how far the clock moves between two runs: six hours, or 91 days
SixHours == 6 * MinutesPerHour
TickSteps == {SixHours, (MaxAgeDays + 1) * MinutesPerDay}

VARIABLES
  now,              \* NOW() of the store, in minutes
  ticks,            \* how many times the clock has moved
  monitored_urls,   \* table monitored_urls: id -> row
  user_urls,        \* table user_urls: set of <<user_id, url_id>>
  screenshots,      \* table screenshots: id -> row (a sequence; id = index)
  analysis_results, \* table analysis_results: id -> row (a sequence; id = index)
  proc,             \* the run of processAllDueUrls in flight
  inflight,         \* url id -> recordFailedScreenshotAttempt calls issued, not yet executed
  sweepInflight,    \* a deactivateOldUrls call issued, not yet executed
  disp,             \* the run of processUnsentNotifications in flight
  del,              \* the call of deleteUserUrl in flight
  sends,            \* <<result id, user>> -> mails the transport accepted
  obs,              \* an observer's notes: the check cycles so far (SpecCycle), the
                    \* results a run has fully mailed (SpecDispatch)
  shot,             \* the call of takeScreenshot in flight, and the browsers open
  parse,            \* the classifier output a cycle is parsing
  avail,            \* the availability-watch pipeline: its four tables, its runs
                    \* in flight and the mails accepted for its results
  overlap           \* a second run of processAllDueUrls in flight, waiting at
                    \* an await while the run in proc goes on

storeVars == <<monitored_urls, user_urls, screenshots, analysis_results>>
procVars == <<proc, inflight, sweepInflight>>
toolVars == <<shot, parse, avail, overlap>>
vars == <<now, ticks, monitored_urls, user_urls, screenshots, analysis_results,
          proc, inflight, sweepInflight, disp, del, sends, obs, shot, parse, avail, overlap>>

\* ------------------------------------------------------------ SQL helpers
TimestampDiffHour(from, to) == (to - from) \div MinutesPerHour

DateDiff(to, from) == (to \div MinutesPerDay) - (from \div MinutesPerDay)

RECURSIVE SeqOf(_)
SeqOf(S) ==
  IF S = {} THEN <<>>
  ELSE LET m == CHOOSE x \in S : \A y \in S : x <= y
       IN <<m>> \o SeqOf(S \ {m})

\* INSERT INTO monitored_urls (...) VALUES (?, ?, NULL, TRUE, 0, "active")
NewUrlRow(frequencyHours, t) ==
  [frequency_hours |-> frequencyHours, last_checked |-> NULL, created_at |-> t,
   active |-> TRUE, status |-> "active", failed_attempts |-> 0]

\* an update on the duplicate key that leaves failed_attempts and status alone
RearmUrlRowKeepsFailures(row, frequencyHours) ==
  [row EXCEPT !.frequency_hours = frequencyHours, !.last_checked = NULL, !.active = TRUE]

\* ON DUPLICATE KEY UPDATE frequency_hours=?, last_checked=NULL, active=TRUE,
\* failed_attempts=0, status="active"
RearmUrlRow(row, frequencyHours) ==
  [row EXCEPT !.frequency_hours = frequencyHours, !.last_checked = NULL,
              !.active = TRUE, !.failed_attempts = 0, !.status = "active"]

\* a due predicate that leaves out "active = TRUE"
IsDueIgnoringActive(row, t) ==
  \/ row.last_checked = NULL
  \/ TimestampDiffHour(row.last_checked, t) >= row.frequency_hours

\* WHERE active = TRUE AND (last_checked IS NULL OR
\*   TIMESTAMPDIFF(HOUR, last_checked, NOW()) >= frequency_hours)
IsDue(row, t) ==
  /\ row.active
  /\ \/ row.last_checked = NULL
     \/ TimestampDiffHour(row.last_checked, t) >= row.frequency_hours

\* S is a result getUrlsToProcess may return on table tbl at time t: LIMIT 10
\* without ORDER BY returns all the matching rows, or any BatchLimit of them
DueSelection(S, tbl, t) ==
  LET due == {u \in DOMAIN tbl : IsDue(tbl[u], t)}
  IN /\ S \subseteq due
     /\ Cardinality(S) = IF Cardinality(due) <= BatchLimit THEN Cardinality(due)
                         ELSE BatchLimit

\* the subsets of S with k elements
RECURSIVE KSubsets(_, _)
KSubsets(S, k) ==
  IF k = 0 THEN {{}}
  ELSE IF Cardinality(S) < k THEN {}
  ELSE LET x == CHOOSE y \in S : TRUE
       IN KSubsets(S \ {x}, k) \cup {T \cup {x} : T \in KSubsets(S \ {x}, k - 1)}

\* all such results: the matching rows less any that exceed the limit
DueSelections(tbl, t) ==
  LET due == {u \in DOMAIN tbl : IsDue(tbl[u], t)}
  IN IF Cardinality(due) <= BatchLimit THEN {due}
     ELSE {due \ X : X \in KSubsets(due, Cardinality(due) - BatchLimit)}

\* an UPDATE that resets failed_attempts and leaves last_checked alone
RecordScreenshotRowKeepsLastChecked(row, t) == [row EXCEPT !.failed_attempts = 0]

\* UPDATE monitored_urls SET last_checked = NOW(), failed_attempts = 0
RecordScreenshotRow(row, t) ==
  [row EXCEPT !.last_checked = t, !.failed_attempts = 0]

\* the same UPDATE without "last_checked = NOW()"
RecordFailedRowKeepsLastChecked(row, t) ==
  LET n == row.failed_attempts + 1
  IN [row EXCEPT !.failed_attempts = n,
                 !.active = IF n >= FailureThreshold THEN FALSE ELSE TRUE,
                 !.status = IF n >= FailureThreshold THEN "error" ELSE @]

\* the same UPDATE with the two IFs reading failed_attempts as it was before
\* the statement (the standard SQL reading of SET)
RecordFailedRowReadsOld(row, t) ==
  [row EXCEPT !.last_checked = t,
              !.failed_attempts = @ + 1,
              !.active = IF row.failed_attempts >= FailureThreshold THEN FALSE ELSE TRUE,
              !.status = IF row.failed_attempts >= FailureThreshold THEN "error" ELSE @]

\* UPDATE monitored_urls SET last_checked = NOW(),
\*   failed_attempts = failed_attempts + 1,
\*   active = IF(failed_attempts >= 3, FALSE, TRUE),
\*   status = IF(failed_attempts >= 3, 'error', status)
\* MySQL evaluates the assignments of a single-table UPDATE left to right:
\* the two IFs read the incremented failed_attempts.
RecordFailedRow(row, t) ==
  LET n == row.failed_attempts + 1
  IN [row EXCEPT !.last_checked = t,
                 !.failed_attempts = n,
                 !.active = IF n >= FailureThreshold THEN FALSE ELSE TRUE,
                 !.status = IF n >= FailureThreshold THEN "error" ELSE @]

\* a sweep that leaves out "last_checked IS NOT NULL"
DeactivateOldRowNeverChecked(row, t) ==
  IF row.active /\ DateDiff(t, row.created_at) > MaxAgeDays
  THEN [row EXCEPT !.active = FALSE]
  ELSE row

\* UPDATE monitored_urls SET active = FALSE WHERE active = TRUE
\*   AND last_checked IS NOT NULL AND DATEDIFF(NOW(), created_at) > 90
DeactivateOldRow(row, t) ==
  IF row.active /\ row.last_checked # NULL /\ DateDiff(t, row.created_at) > MaxAgeDays
  THEN [row EXCEPT !.active = FALSE]
  ELSE row

\* a pause that also forgets when the target was last checked
DeactivateRowClearsLastChecked(row) ==
  [row EXCEPT !.active = FALSE, !.status = "paused", !.last_checked = NULL]

\* UPDATE monitored_urls SET active = FALSE, status = 'paused'
DeactivateRow(row) == [row EXCEPT !.active = FALSE, !.status = "paused"]

\* SELECT ... FROM users u JOIN user_urls uu ... WHERE uu.url_id = ?
UsersMonitoringUrl(links, urlId) == {l[1] : l \in {x \in links : x[2] = urlId}}

\* the url a result belongs to: analysis_results JOIN screenshots JOIN monitored_urls
UrlOfResult(r) == screenshots[analysis_results[r].screenshot_id].url_id

\* a selection that leaves out "notification_sent = FALSE"
AllSaleNotifications(results) == {r \in DOMAIN results : results[r].is_on_sale}

\* SELECT ... WHERE ar.is_on_sale = TRUE AND ar.notification_sent = FALSE
UnsentSaleNotifications(results) ==
  {r \in DOMAIN results : results[r].is_on_sale /\ ~results[r].notification_sent}

\* ------------------------------------------------------------------ Init
IdleProc == [pc |-> "idle", queue |-> <<>>, url |-> 0, screenshot |-> 0,
             analysis |-> [isProductPage |-> FALSE, isOnSale |-> FALSE]]

IdleDisp == [pc |-> "idle", queue |-> {}, cur |-> 0, users |-> {}, todo |-> {},
             failedTo |-> {}, allEmailsSent |-> TRUE]

IdleDel == [pc |-> "idle", user |-> 0, url |-> 0]

\* no call of takeScreenshot made yet, no browser open
IdleShot == [pc |-> "idle", enhanced |-> FALSE, launched |-> 0, closed |-> 0,
             firstSize |-> NULL, secondSize |-> NULL, retries |-> 0,
             stored |-> FALSE, failedAt |-> "none", open |-> 0, calls |-> 0]

\* no classifier output at hand
IdleParse == [pc |-> "idle", analysisOutput |-> <<>>, jsonText |-> <<>>]

\* no run of processAllAvailabilityDueUrls in flight
IdleAvailabilityProc == [pc |-> "idle", queue |-> <<>>, url |-> 0, screenshot |-> 0,
                         analysis |-> [isProductPage |-> FALSE, isAvailable |-> FALSE]]

\* the availability-watch pipeline as the server starts: empty tables
\* (availability_urls, availability_user_urls, availability_screenshots,
\* availability_results), no run in flight
IdleAvail ==
  [availability_urls |-> <<>>, availability_user_urls |-> {},
   availability_screenshots |-> <<>>, availability_results |-> <<>>,
   proc |-> IdleAvailabilityProc, inflight |-> [u \in Urls |-> 0],
   sweepInflight |-> FALSE, disp |-> IdleDisp, del |-> IdleDel, sends |-> <<>>]

ToolsIdle ==
  shot = IdleShot /\ parse = IdleParse /\ avail = IdleAvail /\ overlap = IdleProc

\* the mails the transport has accepted for result r and user u
Sent(r, u) == IF <<r, u>> \in DOMAIN sends THEN sends[<<r, u>>] ELSE 0

\* the state the server starts in: empty tables, no run in flight
Init ==
  /\ ToolsIdle
  /\ now = 0
  /\ ticks = 0
  /\ monitored_urls = <<>>
  /\ user_urls = {}
  /\ screenshots = <<>>
  /\ analysis_results = <<>>
  /\ proc = IdleProc
  /\ inflight = [u \in Urls |-> 0]
  /\ sweepInflight = FALSE
  /\ disp = IdleDisp
  /\ del = IdleDel
  /\ sends = <<>>
  /\ obs = <<>>

\* no statement a run of processAllDueUrls issued without await is still in
\* flight: a statement takes far less than the five minutes between two runs
Settled == (\A u \in DOMAIN inflight : inflight[u] = 0) /\ ~sweepInflight

Quiescent ==
  /\ proc.pc = "idle"
  /\ disp.pc = "idle"
  /\ del.pc = "idle"
  /\ Settled

\* -------------------------------------------------------------- the clock
\* Time passes in steps of hours or days only between runs: every statement,
\* capture and mail of a run takes far less.
Tick(d) ==
  /\ Quiescent
  /\ now' = now + d
  /\ ticks' = ticks + 1
  /\ UNCHANGED <<storeVars, procVars, disp, del, sends>>

\* ---------------------------------------------------------- registration
\* addMonitoredUrl: one transaction (insert or re-arm the url row, insert the
\* association unless it exists); a failure rolls all of it back.
addMonitoredUrl(url, frequencyHours, user) ==
  /\ monitored_urls' =
       IF url \in DOMAIN monitored_urls
       THEN [monitored_urls EXCEPT ![url] = RearmUrlRow(@, frequencyHours)]
       ELSE (url :> NewUrlRow(frequencyHours, now)) @@ monitored_urls
  /\ user_urls' = user_urls \cup {<<user, url>>}
  /\ UNCHANGED <<now, ticks, screenshots, analysis_results, procVars, disp, del, sends>>

\* ------------------------------------------------------------ unsubscribe
\* deleteUserUrl: three statements, each awaited, outside any transaction.
\* DELETE FROM user_urls WHERE user_id = ? AND url_id = ?
deleteUserUrl(user, url, ok) ==
  /\ del.pc = "idle"
  /\ url \in DOMAIN monitored_urls
  /\ IF ok
     THEN /\ user_urls' = user_urls \ {<<user, url>>}
          /\ del' = [pc |-> "count", user |-> user, url |-> url]
     ELSE UNCHANGED <<user_urls, del>>
  /\ UNCHANGED <<now, ticks, monitored_urls, screenshots, analysis_results,
                 procVars, disp, sends>>

\* a count step that goes on to deactivate whatever the count is
deleteUserUrlCountIgnored(ok) ==
  /\ del.pc = "count"
  /\ del' = IF ok THEN [del EXCEPT !.pc = "deactivate"] ELSE IdleDel
  /\ UNCHANGED <<now, ticks, storeVars, procVars, disp, sends>>

\* SELECT COUNT(*) as count FROM user_urls WHERE url_id = ?
deleteUserUrlCount(ok) ==
  /\ del.pc = "count"
  /\ del' = IF ok /\ UsersMonitoringUrl(user_urls, del.url) = {}
            THEN [del EXCEPT !.pc = "deactivate"]
            ELSE IdleDel
  /\ UNCHANGED <<now, ticks, storeVars, procVars, disp, sends>>

\* UPDATE monitored_urls SET active = FALSE WHERE id = ?
deleteUserUrlDeactivate(ok) ==
  /\ del.pc = "deactivate"
  /\ monitored_urls' = IF ok THEN [monitored_urls EXCEPT ![del.url].active = FALSE]
                       ELSE monitored_urls
  /\ del' = IdleDel
  /\ UNCHANGED <<now, ticks, user_urls, screenshots, analysis_results,
                 procVars, disp, sends>>

\* -------------------------------------------------------- watch processor
\* the outcomes of execSync(python analyze_image.py) followed by the extraction
\* and JSON.parse of its output: the process fails, the text does not parse,
\* or it parses to an object with isProductPage and isOnSale
Parsed == [isProductPage : BOOLEAN, isOnSale : BOOLEAN]

\* processUrl up to its first await: the cycle of the head of the queue begins
BeginCycle(queue) ==
  [pc |-> "capture", queue |-> queue, url |-> Head(queue), screenshot |-> 0,
   analysis |-> IdleProc.analysis]

\* processUrl returns without a call of recordFailedScreenshotAttempt
EndCycleRecordsNothing(n) ==
  /\ inflight' = inflight
  /\ proc' = IF Tail(proc.queue) = <<>> THEN IdleProc ELSE BeginCycle(Tail(proc.queue))

\* processUrl returns, having issued n calls of recordFailedScreenshotAttempt
\* on its way out; the for loop of processAllDueUrls goes on to the next url
EndCycle(n) ==
  /\ inflight' = [inflight EXCEPT ![proc.url] = @ + n]
  /\ proc' = IF Tail(proc.queue) = <<>> THEN IdleProc ELSE BeginCycle(Tail(proc.queue))

\* processAllDueUrls: getUrlsToProcess, then deactivateOldUrls() without await,
\* then the first processUrl
processAllDueUrls(S) ==
  /\ proc.pc = "idle"
  /\ DueSelection(S, monitored_urls, now)
  /\ sweepInflight' = TRUE
  /\ proc' = IF S = {} THEN proc ELSE BeginCycle(SeqOf(S))
  /\ UNCHANGED <<now, ticks, storeVars, inflight, disp, del, sends>>

\* await captureUrlScreenshot(urlData.url): a path, or it throws and the outer
\* catch calls recordFailedScreenshotAttempt
captureUrlScreenshot(ok) ==
  /\ proc.pc = "capture"
  /\ IF ok
     THEN /\ proc' = [proc EXCEPT !.pc = "recordScreenshot"]
          /\ UNCHANGED inflight
     ELSE EndCycle(1)
  /\ UNCHANGED <<now, ticks, storeVars, sweepInflight, disp, del, sends>>

\* recordScreenshot, first statement; if it throws, the outer catch of processUrl
\* calls recordFailedScreenshotAttempt
recordScreenshotUpdate(ok) ==
  /\ proc.pc = "recordScreenshot"
  /\ IF ok
     THEN /\ monitored_urls' =
               [monitored_urls EXCEPT ![proc.url] = RecordScreenshotRow(@, now)]
          /\ proc' = [proc EXCEPT !.pc = "insertScreenshot"]
          /\ UNCHANGED inflight
     ELSE /\ EndCycle(1)
          /\ UNCHANGED monitored_urls
  /\ UNCHANGED <<now, ticks, user_urls, screenshots, analysis_results,
                 sweepInflight, disp, del, sends>>

\* recordScreenshot, second statement: INSERT INTO screenshots (url_id, screenshot_path)
recordScreenshotInsert(ok) ==
  /\ proc.pc = "insertScreenshot"
  /\ IF ok
     THEN /\ screenshots' = Append(screenshots, [url_id |-> proc.url, analyzed |-> FALSE])
          /\ proc' = [proc EXCEPT !.pc = "analyze", !.screenshot = Len(screenshots) + 1]
          /\ UNCHANGED inflight
     ELSE /\ EndCycle(1)
          /\ UNCHANGED screenshots
  /\ UNCHANGED <<now, ticks, monitored_urls, user_urls, analysis_results,
                 sweepInflight, disp, del, sends>>

\* execSync throws: the outer catch issues one recordFailedScreenshotAttempt
analyzeThrows ==
  /\ proc.pc = "analyze"
  /\ EndCycle(1)
  /\ UNCHANGED <<now, ticks, storeVars, sweepInflight, disp, del, sends>>

\* JSON.parse throws: the inner catch issues one recordFailedScreenshotAttempt
\* and rethrows, the outer catch issues another
analyzeUnparsable ==
  /\ proc.pc = "analyze"
  /\ EndCycle(2)
  /\ UNCHANGED <<now, ticks, storeVars, sweepInflight, disp, del, sends>>

\* the output parses: recordFailedScreenshotAttempt is issued if it is not a
\* product page, and storeAnalysisResults is called in either case
analyzeParsed(a) ==
  /\ proc.pc = "analyze"
  /\ proc' = [proc EXCEPT !.pc = "markAnalyzed", !.analysis = a]
  /\ inflight' = [inflight EXCEPT ![proc.url] = IF a.isProductPage THEN @ ELSE @ + 1]
  /\ UNCHANGED <<now, ticks, storeVars, sweepInflight, disp, del, sends>>

\* storeAnalysisResults, first statement: UPDATE screenshots SET analyzed = TRUE.
\* If it throws, the inner catch and the outer catch each issue a
\* recordFailedScreenshotAttempt.
storeAnalysisResultsUpdate(ok) ==
  /\ proc.pc = "markAnalyzed"
  /\ IF ok
     THEN /\ screenshots' = [screenshots EXCEPT ![proc.screenshot].analyzed = TRUE]
          /\ proc' = [proc EXCEPT !.pc = "insertAnalysis"]
          /\ UNCHANGED inflight
     ELSE /\ EndCycle(2)
          /\ UNCHANGED screenshots
  /\ UNCHANGED <<now, ticks, monitored_urls, user_urls, analysis_results,
                 sweepInflight, disp, del, sends>>

\* storeAnalysisResults, second statement: INSERT INTO analysis_results
\* (isProductPage || false, isOnSale || false; notification_sent defaults to FALSE)
storeAnalysisResultsInsert(ok) ==
  /\ proc.pc = "insertAnalysis"
  /\ IF ok
     THEN /\ analysis_results' =
               Append(analysis_results,
                      [screenshot_id |-> proc.screenshot,
                       is_product_page |-> proc.analysis.isProductPage,
                       is_on_sale |-> proc.analysis.isOnSale,
                       notification_sent |-> FALSE])
          /\ EndCycle(0)
     ELSE /\ EndCycle(2)
          /\ UNCHANGED analysis_results
  /\ UNCHANGED <<now, ticks, monitored_urls, user_urls, screenshots,
                 sweepInflight, disp, del, sends>>

\* a recordFailedScreenshotAttempt issued without await reaches the store:
\* its UPDATE is executed, or the statement fails and nobody handles the rejection
recordFailedScreenshotAttempt(urlId, ok) ==
  /\ inflight[urlId] > 0
  /\ inflight' = [inflight EXCEPT ![urlId] = @ - 1]
  /\ monitored_urls' = IF ok
                       THEN [monitored_urls EXCEPT ![urlId] = RecordFailedRow(@, now)]
                       ELSE monitored_urls
  /\ UNCHANGED <<now, ticks, user_urls, screenshots, analysis_results,
                 proc, sweepInflight, disp, del, sends>>

\* the deactivateOldUrls issued without await reaches the store
deactivateOldUrls(ok) ==
  /\ sweepInflight
  /\ sweepInflight' = FALSE
  /\ monitored_urls' = IF ok
                       THEN [u \in DOMAIN monitored_urls |->
                               DeactivateOldRow(monitored_urls[u], now)]
                       ELSE monitored_urls
  /\ UNCHANGED <<now, ticks, user_urls, screenshots, analysis_results,
                 proc, inflight, disp, del, sends>>

\* The promise of a store call issued without await has no handler: when the
\* statement fails, Node reports an unhandled rejection. Node 15 and later end
\* the process on it (the default --unhandled-rejections=throw); earlier
\* versions print a warning and go on, which is the outcome ok = FALSE of the
\* two actions above. The process ends with every run in flight; the
\* statements it has already issued may still reach the store.
ProcessExit ==
  /\ proc' = IdleProc
  /\ disp' = IdleDisp
  /\ del' = IdleDel

recordFailedRejectedExit(urlId) ==
  /\ inflight[urlId] > 0
  /\ inflight' = [inflight EXCEPT ![urlId] = @ - 1]
  /\ ProcessExit
  /\ UNCHANGED <<now, ticks, storeVars, sweepInflight, sends>>

deactivateOldRejectedExit ==
  /\ sweepInflight
  /\ sweepInflight' = FALSE
  /\ ProcessExit
  /\ UNCHANGED <<now, ticks, storeVars, inflight, sends>>

\* ------------------------------------------------- notification dispatcher
\* the for loop of processUnsentNotifications goes on to the next notification
NextNotification(d) ==
  IF d.queue \ {d.cur} = {} THEN IdleDisp
  ELSE [IdleDisp EXCEPT !.pc = "getUsers", !.queue = d.queue \ {d.cur}]

\* processUnsentNotifications: getUnsentSaleNotifications; with no rows it returns
processUnsentNotifications ==
  /\ disp.pc = "idle"
  /\ LET notifications == UnsentSaleNotifications(analysis_results)
     IN disp' = IF notifications = {} THEN IdleDisp
                ELSE [IdleDisp EXCEPT !.pc = "getUsers", !.queue = notifications]
  /\ UNCHANGED <<now, ticks, storeVars, procVars, del, sends>>

\* getUsersMonitoringUrl(notification.url_id) for a notification of the list;
\* a store error leaves the loop through the catch of processUnsentNotifications
getUsersMonitoringUrl(r, ok) ==
  /\ disp.pc = "getUsers"
  /\ r \in disp.queue
  /\ LET users == UsersMonitoringUrl(user_urls, UrlOfResult(r))
     IN disp' = IF ~ok THEN IdleDisp
                ELSE IF users = {}
                     THEN [disp EXCEPT !.pc = "markUnwatched", !.cur = r]
                     ELSE [disp EXCEPT !.pc = "send", !.cur = r, !.users = users,
                                       !.todo = users, !.failedTo = {},
                                       !.allEmailsSent = TRUE]
  /\ UNCHANGED <<now, ticks, storeVars, procVars, del, sends>>

\* an UPDATE that also clears the flag the selection reads
MarkSentRowClearsSale(row) == [row EXCEPT !.notification_sent = TRUE, !.is_on_sale = FALSE]

\* UPDATE analysis_results SET notification_sent = TRUE WHERE id = ?
MarkSentRow(row) == [row EXCEPT !.notification_sent = TRUE]

\* an empty fan-out handled like a full success: mark, and pause the target
markNotificationSentUnwatchedPauses(ok) ==
  /\ disp.pc = "markUnwatched"
  /\ IF ok
     THEN /\ analysis_results' = [analysis_results EXCEPT ![disp.cur] = MarkSentRow(@)]
          /\ monitored_urls' =
               [monitored_urls EXCEPT ![UrlOfResult(disp.cur)] = DeactivateRow(@)]
          /\ disp' = NextNotification(disp)
     ELSE /\ disp' = IdleDisp
          /\ UNCHANGED <<analysis_results, monitored_urls>>
  /\ UNCHANGED <<now, ticks, user_urls, screenshots, procVars, del, sends>>

\* users.length === 0: markNotificationSent, continue
markNotificationSentUnwatched(ok) ==
  /\ disp.pc = "markUnwatched"
  /\ IF ok
     THEN /\ analysis_results' = [analysis_results EXCEPT ![disp.cur] = MarkSentRow(@)]
          /\ disp' = NextNotification(disp)
     ELSE /\ disp' = IdleDisp
          /\ UNCHANGED analysis_results
  /\ UNCHANGED <<now, ticks, monitored_urls, user_urls, screenshots,
                 procVars, del, sends>>

\* a flag that keeps only the outcome of the last send
LastEmailSent(flag, emailSent) == emailSent

\* if (!emailSent) allEmailsSent = false
AllEmailsSent(flag, emailSent) == IF emailSent THEN flag ELSE FALSE

\* a loop over users that breaks at the first refused mail
AfterSendsStopsOnFailure(d) ==
  IF d.todo # {} /\ d.allEmailsSent THEN d
  ELSE IF d.allEmailsSent THEN [d EXCEPT !.pc = "mark"]
  ELSE NextNotification(d)

\* a loop exit that marks the notification whatever the flag says
AfterSendsAlwaysMark(d) == IF d.todo # {} THEN d ELSE [d EXCEPT !.pc = "mark"]

\* what follows the for loop over users: if (allEmailsSent) markNotificationSent,
\* else the next notification
AfterSends(d) ==
  IF d.todo # {} THEN d
  ELSE IF d.allEmailsSent THEN [d EXCEPT !.pc = "mark"]
  ELSE NextNotification(d)

\* await sendSaleEmail(notification, user.email, user.name): true if the
\* transport accepted the mail, false if sendMail threw
sendSaleEmail(user, emailSent) ==
  /\ disp.pc = "send"
  /\ user \in disp.todo
  /\ sends' = IF emailSent
              THEN (<<disp.cur, user>> :> Sent(disp.cur, user) + 1) @@ sends
              ELSE sends
  /\ disp' = AfterSends([disp EXCEPT
                 !.todo = @ \ {user},
                 !.failedTo = IF emailSent THEN @ ELSE @ \cup {user},
                 !.allEmailsSent = AllEmailsSent(@, emailSent)])
  /\ UNCHANGED <<now, ticks, storeVars, procVars, del>>

\* allEmailsSent: await markNotificationSent(notification.id)
markNotificationSent(ok) ==
  /\ disp.pc = "mark"
  /\ IF ok
     THEN /\ analysis_results' = [analysis_results EXCEPT ![disp.cur] = MarkSentRow(@)]
          /\ disp' = [disp EXCEPT !.pc = "deactivate"]
     ELSE /\ disp' = IdleDisp
          /\ UNCHANGED analysis_results
  /\ UNCHANGED <<now, ticks, monitored_urls, user_urls, screenshots,
                 procVars, del, sends>>

\* then: await deactivateMonitoredUrl(urlId)
deactivateMonitoredUrl(ok) ==
  /\ disp.pc = "deactivate"
  /\ IF ok
     THEN /\ monitored_urls' =
               [monitored_urls EXCEPT ![UrlOfResult(disp.cur)] = DeactivateRow(@)]
          /\ disp' = NextNotification(disp)
     ELSE /\ disp' = IdleDisp
          /\ UNCHANGED monitored_urls
  /\ UNCHANGED <<now, ticks, user_urls, screenshots, analysis_results,
                 procVars, del, sends>>

\* ------------------------------------------------------ the whole system
\* registration and unsubscribe requests of the users in U
ApiNext(U) ==
  \/ \E url \in Urls, f \in FrequencyHours, user \in U : addMonitoredUrl(url, f, user)
  \/ \E user \in U, url \in Urls, ok \in BOOLEAN : deleteUserUrl(user, url, ok)
  \/ \E ok \in BOOLEAN : deleteUserUrlCount(ok)
  \/ \E ok \in BOOLEAN : deleteUserUrlDeactivate(ok)

\* the steps of a run of processAllDueUrls once it has selected its urls;
\* Oks: the outcomes of the store's statements
ProcNext(Oks) ==
  \/ \E ok \in BOOLEAN : captureUrlScreenshot(ok)
  \/ \E ok \in Oks : recordScreenshotUpdate(ok)
  \/ \E ok \in Oks : recordScreenshotInsert(ok)
  \/ analyzeThrows
  \/ analyzeUnparsable
  \/ \E a \in Parsed : analyzeParsed(a)
  \/ \E ok \in Oks : storeAnalysisResultsUpdate(ok)
  \/ \E ok \in Oks : storeAnalysisResultsInsert(ok)
  \/ \E u \in DOMAIN inflight, ok \in Oks : recordFailedScreenshotAttempt(u, ok)
  \/ \E ok \in Oks : deactivateOldUrls(ok)
  \/ \E u \in DOMAIN inflight : FALSE \in Oks /\ recordFailedRejectedExit(u)
  \/ FALSE \in Oks /\ deactivateOldRejectedExit

\* the steps of a run of processUnsentNotifications once it has its list
DispNext ==
  \/ \E r \in DOMAIN analysis_results, ok \in BOOLEAN : getUsersMonitoringUrl(r, ok)
  \/ \E ok \in BOOLEAN : markNotificationSentUnwatched(ok)
  \/ \E user \in disp.todo, emailSent \in BOOLEAN : sendSaleEmail(user, emailSent)
  \/ \E ok \in BOOLEAN : markNotificationSent(ok)
  \/ \E ok \in BOOLEAN : deactivateMonitoredUrl(ok)

Next ==
  /\ \/ \E d \in TickSteps : ticks < MaxTicks /\ Tick(d)
     \/ ApiNext(Users)
     \/ \E S \in SUBSET Urls :
          /\ Settled
          /\ Len(screenshots) + Cardinality(S) <= MaxShots
          /\ processAllDueUrls(S)
     \/ ProcNext(BOOLEAN)
     \/ (\A p \in DOMAIN sends : sends[p] < MaxMails) /\ processUnsentNotifications
     \/ DispNext
  /\ UNCHANGED obs
  /\ UNCHANGED toolVars

Spec == Init /\ [][Next]_vars

\* ------------------------------------------ the availability-watch pipeline
\* The availability store (database/availabilityDb.js), processor
\* (scheduler/processAvailabilityUrls.js) and dispatcher
\* (notifications/availabilityEmailSender.js), each statement as a function
\* from the pipeline's state a (and the statement's inputs and the clock t)
\* to its next state; a statement that cannot run in a leaves a as it is.

\* INSERT INTO availability_urls (...) VALUES (?, ?, NULL, TRUE, 0, "active")
NewAvailabilityUrlRow(frequencyHours, t) ==
  [frequency_hours |-> frequencyHours, last_checked |-> NULL, created_at |-> t,
   active |-> TRUE, status |-> "active", failed_attempts |-> 0]

\* ON DUPLICATE KEY UPDATE frequency_hours=?, last_checked=NULL, active=TRUE,
\* failed_attempts=0, status="active"
RearmAvailabilityUrlRow(row, frequencyHours) ==
  [row EXCEPT !.frequency_hours = frequencyHours, !.last_checked = NULL,
              !.active = TRUE, !.failed_attempts = 0, !.status = "active"]

\* WHERE active = TRUE AND (last_checked IS NULL OR
\*   TIMESTAMPDIFF(HOUR, last_checked, NOW()) >= frequency_hours)
IsAvailabilityDue(row, t) ==
  /\ row.active
  /\ \/ row.last_checked = NULL
     \/ TimestampDiffHour(row.last_checked, t) >= row.frequency_hours

\* S is a result getAvailabilityUrlsToProcess may return: LIMIT 10, no ORDER BY
AvailabilityDueSelection(S, tbl, t) ==
  LET due == {u \in DOMAIN tbl : IsAvailabilityDue(tbl[u], t)}
  IN /\ S \subseteq due
     /\ Cardinality(S) = IF Cardinality(due) <= BatchLimit THEN Cardinality(due)
                         ELSE BatchLimit

\* UPDATE availability_urls SET last_checked = NOW(), failed_attempts = 0
RecordAvailabilityScreenshotRow(row, t) ==
  [row EXCEPT !.last_checked = t, !.failed_attempts = 0]

\* UPDATE availability_urls SET last_checked = NOW(),
\*   failed_attempts = failed_attempts + 1,
\*   active = IF(failed_attempts >= 3, FALSE, TRUE),
\*   status = IF(failed_attempts >= 3, 'error', status)
\* (the assignments of a single-table UPDATE are evaluated left to right)
RecordFailedAvailabilityRow(row, t) ==
  LET n == row.failed_attempts + 1
  IN [row EXCEPT !.last_checked = t,
                 !.failed_attempts = n,
                 !.active = IF n >= FailureThreshold THEN FALSE ELSE TRUE,
                 !.status = IF n >= FailureThreshold THEN "error" ELSE @]

\* UPDATE availability_urls SET active = FALSE WHERE active = TRUE
\*   AND last_checked IS NOT NULL AND DATEDIFF(NOW(), created_at) > 90
DeactivateOldAvailabilityRow(row, t) ==
  IF row.active /\ row.last_checked # NULL /\ DateDiff(t, row.created_at) > MaxAgeDays
  THEN [row EXCEPT !.active = FALSE]
  ELSE row

\* UPDATE availability_urls SET active = FALSE, status = 'paused'
DeactivateAvailabilityRow(row) == [row EXCEPT !.active = FALSE, !.status = "paused"]

\* UPDATE availability_results SET notification_sent = TRUE WHERE id = ?
MarkAvailabilitySentRow(row) == [row EXCEPT !.notification_sent = TRUE]

\* SELECT ... FROM users u JOIN availability_user_urls auu ... WHERE auu.url_id = ?
UsersMonitoringAvailabilityUrl(links, urlId) ==
  {l[1] : l \in {x \in links : x[2] = urlId}}

\* availability_results JOIN availability_screenshots JOIN availability_urls
UrlOfAvailabilityResult(a, r) ==
  a.availability_screenshots[a.availability_results[r].screenshot_id].url_id

\* SELECT ... WHERE ar.is_available = TRUE AND ar.notification_sent = FALSE
UnsentAvailabilityNotifications(results) ==
  {r \in DOMAIN results : results[r].is_available /\ ~results[r].notification_sent}

\* addAvailabilityUrl: one transaction (insert or re-arm the url row, insert
\* the association unless it exists)
addAvailabilityUrl(a, url, frequencyHours, user, t) ==
  [a EXCEPT
     !.availability_urls =
        IF url \in DOMAIN @
        THEN [@ EXCEPT ![url] = RearmAvailabilityUrlRow(@, frequencyHours)]
        ELSE (url :> NewAvailabilityUrlRow(frequencyHours, t)) @@ @,
     !.availability_user_urls = @ \cup {<<user, url>>}]

\* deleteUserAvailabilityUrl: DELETE FROM availability_user_urls
\*   WHERE user_id = ? AND url_id = ?
deleteUserAvailabilityUrl(a, user, url, ok) ==
  IF a.del.pc = "idle" /\ url \in DOMAIN a.availability_urls /\ ok
  THEN [a EXCEPT !.availability_user_urls = @ \ {<<user, url>>},
                 !.del = [pc |-> "count", user |-> user, url |-> url]]
  ELSE a

\* SELECT COUNT(*) as count FROM availability_user_urls WHERE url_id = ?
deleteUserAvailabilityUrlCount(a, ok) ==
  IF a.del.pc # "count" THEN a
  ELSE [a EXCEPT !.del =
          IF ok /\ UsersMonitoringAvailabilityUrl(a.availability_user_urls, a.del.url) = {}
          THEN [@ EXCEPT !.pc = "deactivate"]
          ELSE IdleDel]

\* UPDATE availability_urls SET active = FALSE WHERE id = ?
deleteUserAvailabilityUrlDeactivate(a, ok) ==
  IF a.del.pc # "deactivate" THEN a
  ELSE [a EXCEPT !.availability_urls =
                    IF ok THEN [@ EXCEPT ![a.del.url].active = FALSE] ELSE @,
                 !.del = IdleDel]

\* processUrl up to its first await
BeginAvailabilityCycle(queue) ==
  [pc |-> "capture", queue |-> queue, url |-> Head(queue), screenshot |-> 0,
   analysis |-> IdleAvailabilityProc.analysis]

\* processUrl returns, having issued n calls of
\* recordFailedAvailabilityScreenshotAttempt on its way out
AvailabilityEndCycle(a, n) ==
  [a EXCEPT !.inflight[a.proc.url] = @ + n,
            !.proc = IF Tail(@.queue) = <<>> THEN IdleAvailabilityProc
                     ELSE BeginAvailabilityCycle(Tail(@.queue))]

\* processAllAvailabilityDueUrls: getAvailabilityUrlsToProcess, then
\* deactivateOldAvailabilityUrls() without await, then the first processUrl
processAllAvailabilityDueUrls(a, S, t) ==
  IF a.proc.pc = "idle" /\ AvailabilityDueSelection(S, a.availability_urls, t)
  THEN [a EXCEPT !.sweepInflight = TRUE,
                 !.proc = IF S = {} THEN @ ELSE BeginAvailabilityCycle(SeqOf(S))]
  ELSE a

\* await captureUrlScreenshot(urlData.url)
captureAvailabilityScreenshot(a, ok) ==
  IF a.proc.pc # "capture" THEN a
  ELSE IF ok THEN [a EXCEPT !.proc.pc = "recordScreenshot"]
  ELSE AvailabilityEndCycle(a, 1)

\* recordAvailabilityScreenshot, first statement
recordAvailabilityScreenshotUpdate(a, ok, t) ==
  IF a.proc.pc # "recordScreenshot" THEN a
  ELSE IF ok
  THEN [a EXCEPT !.availability_urls[a.proc.url] = RecordAvailabilityScreenshotRow(@, t),
                 !.proc.pc = "insertScreenshot"]
  ELSE AvailabilityEndCycle(a, 1)

\* recordAvailabilityScreenshot, second statement:
\* INSERT INTO availability_screenshots (url_id, screenshot_path)
recordAvailabilityScreenshotInsert(a, ok) ==
  IF a.proc.pc # "insertScreenshot" THEN a
  ELSE IF ok
  THEN [a EXCEPT !.availability_screenshots =
                    Append(@, [url_id |-> a.proc.url, analyzed |-> FALSE]),
                 !.proc.pc = "analyze",
                 !.proc.screenshot = Len(a.availability_screenshots) + 1]
  ELSE AvailabilityEndCycle(a, 1)

\* execSync throws: the outer catch issues one failure record
analyzeAvailabilityThrows(a) ==
  IF a.proc.pc # "analyze" THEN a ELSE AvailabilityEndCycle(a, 1)

\* JSON.parse throws: the inner catch and the outer catch each issue one
analyzeAvailabilityUnparsable(a) ==
  IF a.proc.pc # "analyze" THEN a ELSE AvailabilityEndCycle(a, 2)

\* the output parses: a failure record is issued if it is not a product page,
\* and storeAvailabilityResults is called in either case
analyzeAvailabilityParsed(a, analysisResults) ==
  IF a.proc.pc # "analyze" THEN a
  ELSE [a EXCEPT !.proc.pc = "markAnalyzed",
                 !.proc.analysis = analysisResults,
                 !.inflight[a.proc.url] =
                    IF analysisResults.isProductPage THEN @ ELSE @ + 1]

\* storeAvailabilityResults, first statement:
\* UPDATE availability_screenshots SET analyzed = TRUE
storeAvailabilityResultsUpdate(a, ok) ==
  IF a.proc.pc # "markAnalyzed" THEN a
  ELSE IF ok
  THEN [a EXCEPT !.availability_screenshots[a.proc.screenshot].analyzed = TRUE,
                 !.proc.pc = "insertAnalysis"]
  ELSE AvailabilityEndCycle(a, 2)

\* storeAvailabilityResults, second statement: INSERT INTO availability_results
\* (isProductPage || false, isAvailable || false; notification_sent defaults
\* to FALSE)
storeAvailabilityResultsInsert(a, ok) ==
  IF a.proc.pc # "insertAnalysis" THEN a
  ELSE IF ok
  THEN AvailabilityEndCycle(
         [a EXCEPT !.availability_results =
                      Append(@, [screenshot_id |-> a.proc.screenshot,
                                 is_product_page |-> a.proc.analysis.isProductPage,
                                 is_available |-> a.proc.analysis.isAvailable,
                                 notification_sent |-> FALSE])], 0)
  ELSE AvailabilityEndCycle(a, 2)

\* a recordFailedAvailabilityScreenshotAttempt issued without await reaches
\* the store
recordFailedAvailabilityScreenshotAttempt(a, urlId, ok, t) ==
  IF a.inflight[urlId] = 0 THEN a
  ELSE [a EXCEPT !.inflight[urlId] = @ - 1,
                 !.availability_urls =
                    IF ok THEN [@ EXCEPT ![urlId] = RecordFailedAvailabilityRow(@, t)]
                    ELSE @]

\* the deactivateOldAvailabilityUrls issued without await reaches the store
deactivateOldAvailabilityUrls(a, ok, t) ==
  IF ~a.sweepInflight THEN a
  ELSE [a EXCEPT !.sweepInflight = FALSE,
                 !.availability_urls =
                    IF ok
                    THEN [u \in DOMAIN @ |-> DeactivateOldAvailabilityRow(@[u], t)]
                    ELSE @]

\* the process ends on an unhandled rejection, with every run in flight
AvailabilityProcessExit(a) ==
  [a EXCEPT !.proc = IdleAvailabilityProc, !.disp = IdleDisp, !.del = IdleDel]

recordFailedAvailabilityRejectedExit(a, urlId) ==
  IF a.inflight[urlId] = 0 THEN a
  ELSE AvailabilityProcessExit([a EXCEPT !.inflight[urlId] = @ - 1])

deactivateOldAvailabilityRejectedExit(a) ==
  IF ~a.sweepInflight THEN a
  ELSE AvailabilityProcessExit([a EXCEPT !.sweepInflight = FALSE])

\* processUnsentAvailabilityNotifications: getUnsentAvailabilityNotifications;
\* with no rows it returns
processUnsentAvailabilityNotifications(a) ==
  IF a.disp.pc # "idle" THEN a
  ELSE LET notifications == UnsentAvailabilityNotifications(a.availability_results)
       IN [a EXCEPT !.disp = IF notifications = {} THEN IdleDisp
                              ELSE [IdleDisp EXCEPT !.pc = "getUsers",
                                                    !.queue = notifications]]

\* getUsersMonitoringAvailabilityUrl(notification.url_id)
getUsersMonitoringAvailabilityUrl(a, r, ok) ==
  IF a.disp.pc # "getUsers" \/ r \notin a.disp.queue THEN a
  ELSE LET users == UsersMonitoringAvailabilityUrl(a.availability_user_urls,
                                                   UrlOfAvailabilityResult(a, r))
       IN [a EXCEPT !.disp =
             IF ~ok THEN IdleDisp
             ELSE IF users = {} THEN [@ EXCEPT !.pc = "markUnwatched", !.cur = r]
             ELSE [@ EXCEPT !.pc = "send", !.cur = r, !.users = users,
                            !.todo = users, !.failedTo = {},
                            !.allEmailsSent = TRUE]]

\* users.length === 0: markAvailabilityNotificationSent, continue
markAvailabilityNotificationSentUnwatched(a, ok) ==
  IF a.disp.pc # "markUnwatched" THEN a
  ELSE IF ok
  THEN [a EXCEPT !.availability_results[a.disp.cur] = MarkAvailabilitySentRow(@),
                 !.disp = NextNotification(@)]
  ELSE [a EXCEPT !.disp = IdleDisp]

\* await sendSaleEmail(notification, user.email, user.name) of
\* availabilityEmailSender.js; if (!emailSent) allEmailsSent = false; after
\* the loop: if (allEmailsSent) mark, else the next notification
sendAvailabilityEmail(a, user, emailSent) ==
  IF a.disp.pc # "send" \/ user \notin a.disp.todo THEN a
  ELSE LET key == <<a.disp.cur, user>>
           had == IF key \in DOMAIN a.sends THEN a.sends[key] ELSE 0
           d == [a.disp EXCEPT
                   !.todo = @ \ {user},
                   !.failedTo = IF emailSent THEN @ ELSE @ \cup {user},
                   !.allEmailsSent = IF emailSent THEN @ ELSE FALSE]
       IN [a EXCEPT !.sends = IF emailSent THEN (key :> had + 1) @@ @ ELSE @,
                    !.disp = IF d.todo # {} THEN d
                             ELSE IF d.allEmailsSent THEN [d EXCEPT !.pc = "mark"]
                             ELSE NextNotification(d)]

\* allEmailsSent: await markAvailabilityNotificationSent(notification.id)
markAvailabilityNotificationSent(a, ok) ==
  IF a.disp.pc # "mark" THEN a
  ELSE IF ok
  THEN [a EXCEPT !.availability_results[a.disp.cur] = MarkAvailabilitySentRow(@),
                 !.disp.pc = "deactivate"]
  ELSE [a EXCEPT !.disp = IdleDisp]

\* then: await deactivateAvailabilityUrl(urlId)
deactivateAvailabilityUrl(a, ok) ==
  IF a.disp.pc # "deactivate" THEN a
  ELSE IF ok
  THEN [a EXCEPT !.availability_urls[UrlOfAvailabilityResult(a, a.disp.cur)] =
                    DeactivateAvailabilityRow(@),
                 !.disp = NextNotification(@)]
  ELSE [a EXCEPT !.disp = IdleDisp]

\* ------------------------------------------------ the two pipelines at once
\* The price-watch and the availability-watch pipeline take the same
\* registrations, unsubscribes, due selections, capture, classification and
\* store outcomes, and mail outcomes, at the same times: every step of the
\* price-watch pipeline is paired with the availability statement of the same
\* place, on the same inputs. The classifier's isOnSale is the availability
\* classifier's isAvailable.
AsAvailabilityAnalysis(analysis) ==
  [isProductPage |-> analysis.isProductPage, isAvailable |-> analysis.isOnSale]

TwinApiNext ==
  \/ \E url \in Urls, f \in FrequencyHours, user \in Users :
       /\ addMonitoredUrl(url, f, user)
       /\ avail' = addAvailabilityUrl(avail, url, f, user, now)
  \/ \E user \in Users, url \in Urls, ok \in BOOLEAN :
       /\ deleteUserUrl(user, url, ok)
       /\ avail' = deleteUserAvailabilityUrl(avail, user, url, ok)
  \/ \E ok \in BOOLEAN :
       /\ deleteUserUrlCount(ok)
       /\ avail' = deleteUserAvailabilityUrlCount(avail, ok)
  \/ \E ok \in BOOLEAN :
       /\ deleteUserUrlDeactivate(ok)
       /\ avail' = deleteUserAvailabilityUrlDeactivate(avail, ok)

TwinProcNext ==
  \/ \E ok \in BOOLEAN :
       /\ captureUrlScreenshot(ok)
       /\ avail' = captureAvailabilityScreenshot(avail, ok)
  \/ \E ok \in BOOLEAN :
       /\ recordScreenshotUpdate(ok)
       /\ avail' = recordAvailabilityScreenshotUpdate(avail, ok, now)
  \/ \E ok \in BOOLEAN :
       /\ recordScreenshotInsert(ok)
       /\ avail' = recordAvailabilityScreenshotInsert(avail, ok)
  \/ analyzeThrows /\ avail' = analyzeAvailabilityThrows(avail)
  \/ analyzeUnparsable /\ avail' = analyzeAvailabilityUnparsable(avail)
  \/ \E r \in Parsed :
       /\ analyzeParsed(r)
       /\ avail' = analyzeAvailabilityParsed(avail, AsAvailabilityAnalysis(r))
  \/ \E ok \in BOOLEAN :
       /\ storeAnalysisResultsUpdate(ok)
       /\ avail' = storeAvailabilityResultsUpdate(avail, ok)
  \/ \E ok \in BOOLEAN :
       /\ storeAnalysisResultsInsert(ok)
       /\ avail' = storeAvailabilityResultsInsert(avail, ok)
  \/ \E u \in DOMAIN inflight, ok \in BOOLEAN :
       /\ recordFailedScreenshotAttempt(u, ok)
       /\ avail' = recordFailedAvailabilityScreenshotAttempt(avail, u, ok, now)
  \/ \E ok \in BOOLEAN :
       /\ deactivateOldUrls(ok)
       /\ avail' = deactivateOldAvailabilityUrls(avail, ok, now)
  \/ \E u \in DOMAIN inflight :
       /\ recordFailedRejectedExit(u)
       /\ avail' = recordFailedAvailabilityRejectedExit(avail, u)
  \/ /\ deactivateOldRejectedExit
     /\ avail' = deactivateOldAvailabilityRejectedExit(avail)

TwinDispNext ==
  \/ \E r \in DOMAIN analysis_results, ok \in BOOLEAN :
       /\ getUsersMonitoringUrl(r, ok)
       /\ avail' = getUsersMonitoringAvailabilityUrl(avail, r, ok)
  \/ \E ok \in BOOLEAN :
       /\ markNotificationSentUnwatched(ok)
       /\ avail' = markAvailabilityNotificationSentUnwatched(avail, ok)
  \/ \E user \in disp.todo, emailSent \in BOOLEAN :
       /\ sendSaleEmail(user, emailSent)
       /\ avail' = sendAvailabilityEmail(avail, user, emailSent)
  \/ \E ok \in BOOLEAN :
       /\ markNotificationSent(ok)
       /\ avail' = markAvailabilityNotificationSent(avail, ok)
  \/ \E ok \in BOOLEAN :
       /\ deactivateMonitoredUrl(ok)
       /\ avail' = deactivateAvailabilityUrl(avail, ok)

NextTwin ==
  /\ \/ \E d \in TickSteps : ticks < MaxTicks /\ Tick(d) /\ avail' = avail
     \/ TwinApiNext
     \/ \E S \in SUBSET Urls :
          /\ Settled
          /\ Len(screenshots) + Cardinality(S) <= MaxShots
          /\ processAllDueUrls(S)
          /\ avail' = processAllAvailabilityDueUrls(avail, S, now)
     \/ TwinProcNext
     \/ /\ \A p \in DOMAIN sends : sends[p] < MaxMails
        /\ processUnsentNotifications
        /\ avail' = processUnsentAvailabilityNotifications(avail)
     \/ TwinDispNext
  /\ UNCHANGED <<obs, shot, parse, overlap>>

SpecTwin == Init /\ [][NextTwin]_vars


\* --------------------------------------- one target's cycles in isolation
\* The processor alone on one freshly registered target: no other handler
\* runs, the store executes every statement, and the clock moves six hours
\* between runs. An observer notes each cycle in obs: the url, failed_attempts
\* when the cycle began, how the cycle ended, and whether it stored an
\* analysis result.
InitCycle ==
  /\ ToolsIdle
  /\ now = 0
  /\ ticks = 0
  /\ \E f \in FrequencyHours : monitored_urls = <<NewUrlRow(f, 0)>>
  /\ user_urls = {<<1, 1>>}
  /\ screenshots = <<>>
  /\ analysis_results = <<>>
  /\ proc = IdleProc
  /\ inflight = [u \in Urls |-> 0]
  /\ sweepInflight = FALSE
  /\ disp = IdleDisp
  /\ del = IdleDel
  /\ sends = <<>>
  /\ obs = <<>>

CycleBegins == proc'.pc = "capture" /\ (proc.pc = "idle" \/ proc'.queue # proc.queue)

CycleEnds == proc.pc # "idle" /\ (proc'.pc = "idle" \/ proc'.queue # proc.queue)

CycleOutcome ==
  CASE proc.pc = "capture" -> "capture_throws"
    [] proc.pc = "analyze" ->
         IF inflight'[proc.url] = inflight[proc.url] + 2 THEN "unparsable"
         ELSE "classifier_throws"
    [] proc.pc = "insertAnalysis" /\ Len(analysis_results') > Len(analysis_results) ->
         IF proc.analysis.isProductPage THEN "product_page" ELSE "not_product_page"
    [] OTHER -> "store_throws"

ObserveCycle ==
  LET closed == IF CycleEnds
                THEN [obs EXCEPT ![Len(obs)].outcome = CycleOutcome,
                                 ![Len(obs)].persisted =
                                    Len(analysis_results') > Len(analysis_results)]
                ELSE obs
  IN obs' = IF CycleBegins
            THEN Append(closed,
                        [url |-> proc'.url,
                         before |-> monitored_urls[proc'.url].failed_attempts,
                         outcome |-> "running", persisted |-> FALSE])
            ELSE closed

NextCycle ==
  /\ \/ ticks < MaxCycleTicks /\ Tick(SixHours)
     \/ \E S \in SUBSET Urls :
          /\ Settled
          /\ Len(obs) + Cardinality(S) <= MaxCycles
          /\ processAllDueUrls(S)
     \/ ProcNext({TRUE})
  /\ ObserveCycle
  /\ UNCHANGED toolVars

SpecCycle == InitCycle /\ [][NextCycle]_vars

\* ------------------------------------------- what one cycle leaves behind
\* The processor alone on one freshly registered target, with a store that
\* may fail any statement, the clock moving six hours between runs. An
\* observer notes in obs the cycle in flight or last ended: how many cycles
\* have begun, how this one ended, the UPDATE statements executed on the
\* target's row on its behalf, the row and the sizes of the tables as the
\* cycle found them, and the time it began.
InitOutcome ==
  /\ ToolsIdle
  /\ now = 0
  /\ ticks = 0
  /\ \E f \in FrequencyHours : monitored_urls = <<NewUrlRow(f, 0)>>
  /\ user_urls = {<<1, 1>>}
  /\ screenshots = <<>>
  /\ analysis_results = <<>>
  /\ proc = IdleProc
  /\ inflight = [u \in Urls |-> 0]
  /\ sweepInflight = FALSE
  /\ disp = IdleDisp
  /\ del = IdleDel
  /\ sends = <<>>
  /\ obs = [cycles |-> 0, outcome |-> "none", writes |-> 0,
            row |-> NewUrlRow(6, 0), shots |-> 0, results |-> 0, at |-> 0]

\* how the step that ends a cycle ends it
StepOutcome ==
  CASE captureUrlScreenshot(FALSE) -> "capture_throws"
    [] analyzeThrows -> "classifier_throws"
    [] analyzeUnparsable -> "unparsable"
    [] storeAnalysisResultsInsert(TRUE) ->
         IF proc.analysis.isProductPage THEN "product_page" ELSE "not_product_page"
    [] proc'.queue = <<>> /\ proc.queue # <<>> /\ inflight' # inflight
         /\ \A u \in DOMAIN inflight : inflight'[u] <= inflight[u] -> "process_exit"
    [] proc'.queue = <<>> /\ proc.queue # <<>> /\ sweepInflight' # sweepInflight -> "process_exit"
    [] OTHER -> "store_throws"

ObserveOutcome ==
  LET wrote == \/ recordScreenshotUpdate(TRUE)
               \/ \E u \in DOMAIN inflight : recordFailedScreenshotAttempt(u, TRUE)
      ended == IF CycleEnds THEN [obs EXCEPT !.outcome = StepOutcome] ELSE obs
  IN obs' = IF CycleBegins
            THEN [cycles |-> obs.cycles + 1, outcome |-> "running", writes |-> 0,
                  row |-> monitored_urls[proc'.url], shots |-> Len(screenshots),
                  results |-> Len(analysis_results), at |-> now]
            ELSE [ended EXCEPT !.writes = IF wrote THEN @ + 1 ELSE @]

NextOutcome ==
  /\ \/ ticks < MaxCycleTicks /\ Tick(SixHours)
     \/ \E S \in SUBSET Urls :
          /\ Settled
          /\ obs.cycles + Cardinality(S) <= MaxCycles
          /\ processAllDueUrls(S)
     \/ ProcNext(BOOLEAN)
  /\ ObserveOutcome
  /\ UNCHANGED toolVars

SpecOutcome == InitOutcome /\ [][NextOutcome]_vars

\* ------------------------------------------------ the captured image files
\* The two processors on one target each, taking the same capture, classifier
\* and store outcomes, with the screenshots directory both capture into. obs
\* holds the directory and what the cycle in flight knows of its file:
\* captures counts the captures that returned a path (a capture is named by
\* its number), files and availability_files are the image files on disk,
\* cur is the file of the price-watch cycle in flight or last ended (0: its
\* capture has not returned), unlinkFailed tells whether fs.unlinkSync threw
\* for it, and cycles and outcome are as in SpecOutcome.
InitFiles ==
  /\ shot = IdleShot
  /\ parse = IdleParse
  /\ overlap = IdleProc
  /\ now = 0
  /\ ticks = 0
  /\ \E f \in FrequencyHours :
       /\ monitored_urls = <<NewUrlRow(f, 0)>>
       /\ avail = addAvailabilityUrl(IdleAvail, 1, f, 1, 0)
  /\ user_urls = {<<1, 1>>}
  /\ screenshots = <<>>
  /\ analysis_results = <<>>
  /\ proc = IdleProc
  /\ inflight = [u \in Urls |-> 0]
  /\ sweepInflight = FALSE
  /\ disp = IdleDisp
  /\ del = IdleDel
  /\ sends = <<>>
  /\ obs = [cycles |-> 0, outcome |-> "none", captures |-> 0, files |-> {},
            availability_files |-> {}, cur |-> 0, unlinkFailed |-> FALSE]

\* resolvedScreenshotPath of processUrl: null until recordScreenshot has
\* returned, then the path of the cycle's file
ResolvedScreenshotPath(pc, file) ==
  IF pc \in {"analyze", "markAnalyzed", "insertAnalysis"} THEN file ELSE 0

\* deleteScreenshot(screenshotPath): if (screenshotPath && fs.existsSync(...))
\* fs.unlinkSync, whose error is caught and logged
DeleteScreenshot(files, screenshotPath, unlinked) ==
  IF screenshotPath # 0 /\ screenshotPath \in files /\ unlinked
  THEN files \ {screenshotPath}
  ELSE files

\* what a step of the two processors does to the directory: a capture that
\* returns writes one file for each pipeline; processUrl of processUrls.js
\* calls deleteScreenshot(resolvedScreenshotPath) in its inner finally and in
\* its outer catch; processUrl of processAvailabilityUrls.js calls nothing
ObserveFiles ==
  \E unlinked \in BOOLEAN :
    LET path == ResolvedScreenshotPath(proc.pc, obs.cur)
        ends == CycleEnds /\ StepOutcome # "process_exit"
        tried == ends /\ path # 0
    IN obs' =
         IF CycleBegins
         THEN [obs EXCEPT !.cycles = @ + 1, !.outcome = "running", !.cur = 0,
                          !.unlinkFailed = FALSE]
         ELSE IF captureUrlScreenshot(TRUE)
         THEN [obs EXCEPT !.captures = @ + 1, !.cur = obs.captures + 1,
                          !.files = @ \cup {obs.captures + 1},
                          !.availability_files = @ \cup {obs.captures + 1}]
         ELSE IF CycleEnds
         THEN [obs EXCEPT !.outcome = StepOutcome,
                          !.files = IF ends THEN DeleteScreenshot(@, path, unlinked)
                                    ELSE @,
                          !.unlinkFailed = tried /\ ~unlinked]
         ELSE obs

NextFiles ==
  /\ \/ ticks < MaxCycleTicks /\ Tick(SixHours) /\ avail' = avail
     \/ \E S \in SUBSET Urls :
          /\ Settled
          /\ obs.cycles + Cardinality(S) <= MaxCycles
          /\ processAllDueUrls(S)
          /\ avail' = processAllAvailabilityDueUrls(avail, S, now)
     \/ TwinProcNext
  /\ ObserveFiles
  /\ UNCHANGED <<shot, parse, overlap>>

SpecFiles == InitFiles /\ [][NextFiles]_vars

\* ------------------------------------------- one target more than a batch
\* The processor alone on BatchLimit + 1 six-hour targets, registered and
\* last checked within the same hour, each with the screenshot and the result
\* of that check; every capture, classification (a product page, not on
\* sale) and store statement succeeds. The cron job keeps starting runs and
\* every run goes on to its end; the clock may move once between two runs, by
\* six hours or, the server having been down, by 91 days.
StarveUrls == BatchLimit + 1

InitStarve ==
  /\ ToolsIdle
  /\ now = 0
  /\ ticks = 0
  /\ monitored_urls = [u \in 1..StarveUrls |-> RecordScreenshotRow(NewUrlRow(6, 0), 0)]
  /\ user_urls = {1} \X (1..StarveUrls)
  /\ screenshots = [u \in 1..StarveUrls |-> [url_id |-> u, analyzed |-> TRUE]]
  /\ analysis_results =
       [u \in 1..StarveUrls |-> [screenshot_id |-> u, is_product_page |-> TRUE,
                                 is_on_sale |-> FALSE, notification_sent |-> FALSE]]
  /\ proc = IdleProc
  /\ inflight = [u \in 1..StarveUrls |-> 0]
  /\ sweepInflight = FALSE
  /\ disp = IdleDisp
  /\ del = IdleDel
  /\ sends = <<>>
  /\ obs = <<>>

\* the cron job of every five minutes: await processAllDueUrls()
StarveRun ==
  /\ proc.pc = "idle"
  /\ Settled
  /\ \E S \in DueSelections(monitored_urls, now) : processAllDueUrls(S)
  /\ UNCHANGED obs
  /\ UNCHANGED toolVars

\* the steps of a run whose cycles all succeed, and of its sweep
StarveCycle ==
  /\ \/ captureUrlScreenshot(TRUE)
     \/ recordScreenshotUpdate(TRUE)
     \/ recordScreenshotInsert(TRUE)
     \/ analyzeParsed([isProductPage |-> TRUE, isOnSale |-> FALSE])
     \/ storeAnalysisResultsUpdate(TRUE)
     \/ storeAnalysisResultsInsert(TRUE)
     \/ deactivateOldUrls(TRUE)
  /\ UNCHANGED obs
  /\ UNCHANGED toolVars

\* the clock moves between two runs
StarveTick ==
  /\ \E d \in TickSteps : ticks < MaxTicks /\ Tick(d)
  /\ UNCHANGED obs
  /\ UNCHANGED toolVars

NextStarve == StarveTick \/ StarveRun \/ StarveCycle

SpecStarve ==
  InitStarve /\ [][NextStarve]_vars /\ WF_vars(StarveRun) /\ WF_vars(StarveCycle)

\* ------------------------------------------------------- overlapping runs
\* The cron job starts processAllDueUrls every five minutes whether or not the
\* run before has returned, and startAllJobs starts a run of its own beside
\* the first cron tick: up to MaxOverlapRuns runs on one freshly registered
\* target, on a store that may fail any statement. A run goes on from await
\* to await; at an await the event loop may resume the other run. proc is the
\* run that goes on next, overlap the one that waits. obs counts the runs
\* started.
MaxOverlapRuns == 2

InitOverlap ==
  /\ ToolsIdle
  /\ now = 0
  /\ ticks = 0
  /\ \E f \in FrequencyHours : monitored_urls = <<NewUrlRow(f, 0)>>
  /\ user_urls = {<<1, 1>>}
  /\ screenshots = <<>>
  /\ analysis_results = <<>>
  /\ proc = IdleProc
  /\ inflight = [u \in Urls |-> 0]
  /\ sweepInflight = FALSE
  /\ disp = IdleDisp
  /\ del = IdleDel
  /\ sends = <<>>
  /\ obs = 0

\* the event loop turns from the run at hand to the other one
ResumeOtherRun ==
  /\ proc # overlap
  /\ proc' = overlap
  /\ overlap' = proc
  /\ UNCHANGED <<now, ticks, storeVars, inflight, sweepInflight, disp, del, sends, obs>>

NextOverlap ==
  \/ /\ \E S \in SUBSET Urls :
          /\ Settled
          /\ obs < MaxOverlapRuns
          /\ processAllDueUrls(S)
     /\ obs' = obs + 1
     /\ UNCHANGED toolVars
  \/ ProcNext(BOOLEAN) /\ UNCHANGED obs /\ UNCHANGED toolVars
  \/ ResumeOtherRun /\ UNCHANGED <<shot, parse, avail>>

SpecOverlap == InitOverlap /\ [][NextOverlap]_vars

\* ------------------------------------------------- the dispatcher's runs
\* The dispatcher, registration and unsubscribe on a store the processor has
\* left with one checked target, its subscribers, and one result for each of
\* its cycles so far, none sent yet (the mail transport was down, or no
\* dispatch run has come since). An observer notes in obs the results for
\* which a run has had every mail of the fan-out accepted.
CheckedUrlRow(t) == RecordScreenshotRow(NewUrlRow(6, 0), t)

InitDispatch ==
  /\ ToolsIdle
  /\ ticks = 0
  /\ \E n \in 1..MaxResults :
       /\ now = (n - 1) * SixHours
       /\ monitored_urls = <<CheckedUrlRow((n - 1) * SixHours)>>
       /\ screenshots = [i \in 1..n |-> [url_id |-> 1, analyzed |-> TRUE]]
       /\ \E sale \in [1..n -> BOOLEAN] :
            analysis_results =
              [i \in 1..n |-> [screenshot_id |-> i, is_product_page |-> TRUE,
                               is_on_sale |-> sale[i], notification_sent |-> FALSE]]
  /\ \E U \in SUBSET Subscribers : U # {} /\ user_urls = U \X {1}
  /\ proc = IdleProc
  /\ inflight = [u \in Urls |-> 0]
  /\ sweepInflight = FALSE
  /\ disp = IdleDisp
  /\ del = IdleDel
  /\ sends = <<>>
  /\ obs = {}

ObserveDispatch ==
  obs' = IF disp.pc = "send" /\ disp'.pc = "mark" THEN obs \cup {disp.cur} ELSE obs

NextDispatch ==
  /\ \/ ApiNext(Subscribers)
     \/ (\A p \in DOMAIN sends : sends[p] < MaxResend) /\ processUnsentNotifications
     \/ DispNext
  /\ ObserveDispatch
  /\ UNCHANGED toolVars

SpecDispatch == InitDispatch /\ [][NextDispatch]_vars

\* ------------------------------------------------------ the due selection
\* getUrlsToProcess on tables of MaxRows rows, each row in a state the handlers
\* leave a row in, at clock values around the six and twelve hour marks.
DueRowKinds ==
  <<NewUrlRow(6, 0),
    RecordScreenshotRow(NewUrlRow(6, 0), 0),
    RecordScreenshotRow(NewUrlRow(12, 0), 0),
    DeactivateRow(RecordScreenshotRow(NewUrlRow(6, 0), 0)),
    [NewUrlRow(6, 0) EXCEPT !.active = FALSE]>>

DueClock == {SixHours - 1, SixHours, 2 * SixHours}

\* the table whose rows 1..MaxRows are of the kinds 1, 2, ... in this order,
\* the rows up to cut[k] being of a kind <= k
DueTable(cut) ==
  [i \in 1..MaxRows |->
     DueRowKinds[1 + Cardinality({k \in DOMAIN cut : cut[k] < i})]]

InitDue ==
  /\ ToolsIdle
  /\ now \in DueClock
  /\ ticks = 0
  /\ \E cut \in [1..(Len(DueRowKinds) - 1) -> 0..MaxRows] :
       /\ \A k \in DOMAIN cut : k > 1 => cut[k - 1] <= cut[k]
       /\ monitored_urls = DueTable(cut)
  /\ user_urls = {}
  /\ screenshots = <<>>
  /\ analysis_results = <<>>
  /\ proc = IdleProc
  /\ inflight = [u \in Urls |-> 0]
  /\ sweepInflight = FALSE
  /\ disp = IdleDisp
  /\ del = IdleDel
  /\ sends = <<>>
  /\ obs = <<>>

NextDue ==
  /\ proc.pc = "idle"
  /\ \E S \in DueSelections(monitored_urls, now) : processAllDueUrls(S)
  /\ UNCHANGED obs
  /\ UNCHANGED toolVars

SpecDue == InitDue /\ [][NextDue]_vars

\* --------------------------------------------------------- one batch run
\* The processor alone on freshly registered targets, all of them due, with a
\* store that may fail any statement. An observer notes in obs the targets the
\* last due selection returned, how many times the cycle of each has started
\* since, and the number of batch runs.
InitBatch ==
  /\ ToolsIdle
  /\ now = 0
  /\ ticks = 0
  /\ \E n \in 2..MaxBatchUrls :
       /\ monitored_urls = [u \in 1..n |-> NewUrlRow(6, 0)]
       /\ user_urls = {1} \X (1..n)
       /\ inflight = [u \in 1..n |-> 0]
       /\ obs = [batch |-> {}, started |-> [u \in 1..n |-> 0], runs |-> 0]
  /\ screenshots = <<>>
  /\ analysis_results = <<>>
  /\ proc = IdleProc
  /\ sweepInflight = FALSE
  /\ disp = IdleDisp
  /\ del = IdleDel
  /\ sends = <<>>

ObserveBatch(S) ==
  obs' = [batch |-> S, started |-> [u \in DOMAIN inflight |-> IF S # {} /\ u = proc'.url THEN 1 ELSE 0],
          runs |-> obs.runs + 1]

ObserveBatchCycle ==
  obs' = IF CycleBegins THEN [obs EXCEPT !.started[proc'.url] = @ + 1] ELSE obs

NextBatch ==
  /\ \/ \E S \in SUBSET DOMAIN monitored_urls :
          /\ Settled
          /\ obs.runs < MaxBatches
          /\ processAllDueUrls(S)
          /\ ObserveBatch(S)
     \/ ProcNext(BOOLEAN) /\ ObserveBatchCycle
  /\ UNCHANGED toolVars

SpecBatch == InitBatch /\ [][NextBatch]_vars

\* ------------------------------------------------------- takeScreenshot
\* The capture service: takeScreenshot of utils/screenshotService.js (one
\* attempt, the one cron/screenshotTask.js requires) and its variant with a
\* size gate and a second attempt with stronger evasion. Every awaited call
\* of the browser or of the image library is one step and may throw; the
\* function's catch logs the error and rethrows it. shot.open counts the
\* browsers of the process that were launched and not closed; shot.launched
\* and shot.closed count those of the call in flight. Sizes are in bytes.
\* firstSize >= minSizeKB, with firstSize = stats.size / 1024
PassesSizeGateStrictly(bytes, minSizeKB) == bytes > minSizeKB * BytesPerKB

PassesSizeGate(bytes, minSizeKB) == bytes >= minSizeKB * BytesPerKB

\* sizes of a raw snapshot around the gate
SnapshotSizes ==
  {MinSizeKB * BytesPerKB - 1, MinSizeKB * BytesPerKB, MinSizeKB * BytesPerKB + 1}

Thrown(step) == [shot EXCEPT !.pc = "thrown", !.failedAt = step]

takeScreenshot(enhanced) ==
  /\ shot.pc \in {"idle", "returned", "thrown"}
  /\ shot' = [IdleShot EXCEPT !.pc = "launch", !.enhanced = enhanced,
                              !.open = shot.open, !.calls = shot.calls + 1]

\* puppeteer.launch
launch(ok) ==
  /\ shot.pc = "launch"
  /\ shot' = IF ok
             THEN [shot EXCEPT !.pc = IF shot.launched = 0 THEN "goto" ELSE "gotoRetry",
                               !.launched = @ + 1, !.open = @ + 1]
             ELSE Thrown("launch")

\* newPage, the page's settings and page.goto of the first attempt
goto(ok) ==
  /\ shot.pc = "goto"
  /\ shot' = IF ok THEN [shot EXCEPT !.pc = "screenshot"] ELSE Thrown("goto")

\* a retry loop that gives up only when retries exceeds maxRetries
gotoRetryOnceMore(ok) ==
  /\ shot.pc = "gotoRetry"
  /\ shot' = IF ok THEN [shot EXCEPT !.pc = "screenshot"]
             ELSE IF shot.retries + 1 > MaxRetries
                  THEN [Thrown("goto") EXCEPT !.retries = @ + 1]
                  ELSE [shot EXCEPT !.retries = @ + 1]

\* page2.goto in the retry loop of the second attempt
gotoRetry(ok) ==
  /\ shot.pc = "gotoRetry"
  /\ shot' = IF ok THEN [shot EXCEPT !.pc = "screenshot"]
             ELSE IF shot.retries + 1 >= MaxRetries
                  THEN [Thrown("goto") EXCEPT !.retries = @ + 1]
                  ELSE [shot EXCEPT !.retries = @ + 1]

\* the pointer moves, the scrolling and page.screenshot into the temporary file
screenshot(ok, bytes) ==
  /\ shot.pc = "screenshot"
  /\ shot' = IF ~ok THEN Thrown("screenshot")
             ELSE IF shot.launched = 1
                  THEN [shot EXCEPT !.pc = "close", !.firstSize = bytes]
                  ELSE [shot EXCEPT !.pc = "close", !.secondSize = bytes]

\* browser.close, and the size check that follows it
close ==
  /\ shot.pc = "close"
  /\ shot' = [shot EXCEPT !.closed = @ + 1, !.open = @ - 1,
                          !.pc = IF /\ shot.enhanced
                                    /\ shot.launched = 1
                                    /\ ~PassesSizeGate(shot.firstSize, MinSizeKB)
                                 THEN "launch" ELSE "resize"]

\* sharp(tempFilePath).resize(...).toFile(filePath), fs.unlinkSync(tempFilePath)
\* and return relativePath
resize(ok) ==
  /\ shot.pc = "resize"
  /\ shot' = IF ok THEN [shot EXCEPT !.pc = "returned", !.stored = TRUE]
             ELSE Thrown("resize")

NextShot ==
  /\ \/ \E enhanced \in BOOLEAN : shot.calls < MaxCaptures /\ takeScreenshot(enhanced)
     \/ \E ok \in BOOLEAN : launch(ok)
     \/ \E ok \in BOOLEAN : goto(ok)
     \/ \E ok \in BOOLEAN : gotoRetry(ok)
     \/ \E ok \in BOOLEAN, bytes \in SnapshotSizes : screenshot(ok, bytes)
     \/ close
     \/ \E ok \in BOOLEAN : resize(ok)
  /\ UNCHANGED <<now, ticks, storeVars, procVars, disp, del, sends, obs, parse, avail, overlap>>

SpecShot == Init /\ [][NextShot]_vars

\* -------------------------------------------- the classifier's output
\* processUrl's extraction of the JSON text from the classifier's output
\* (processUrls.js 64-77; the availability processor has the same lines). An
\* output is a string over four characters: the two braces, a blank, and "1",
\* which outside an object is a digit and inside one stands for the text of a
\* member. Indices are those of JavaScript, from 0.
JsonChars == {"{", "}", "1", " "}

ClassifierOutputs == UNION {[1..n -> JsonChars] : n \in 0..MaxOutputLen}

\* String.prototype.trim
Trim(str) ==
  LET inked == {i \in 1..Len(str) : str[i] # " "}
  IN IF inked = {} THEN <<>>
     ELSE SubSeq(str, CHOOSE i \in inked : \A j \in inked : i <= j,
                      CHOOSE i \in inked : \A j \in inked : i >= j)

\* String.prototype.indexOf of a character: -1 when str has none
IndexOf(str, c) ==
  LET at == {i \in 1..Len(str) : str[i] = c}
  IN IF at = {} THEN -1 ELSE (CHOOSE i \in at : \A j \in at : i <= j) - 1

\* String.prototype.substring: both indices are clamped to 0..length and
\* swapped when the first is the larger
Substring(str, indexStart, indexEnd) ==
  LET Clamp(x) == IF x < 0 THEN 0 ELSE IF x > Len(str) THEN Len(str) ELSE x
      a == Clamp(indexStart)
      b == Clamp(indexEnd)
  IN IF a <= b THEN SubSeq(str, a + 1, b) ELSE SubSeq(str, b + 1, a)

\* lines 66-74
ExtractJsonText(analysisOutput) ==
  LET jsonText == Trim(analysisOutput)
      firstJsonStart == IndexOf(jsonText, "{")
      firstJsonEnd == IndexOf(jsonText, "}") + 1
  IN IF firstJsonStart # -1 /\ firstJsonEnd # -1
     THEN Substring(jsonText, firstJsonStart, firstJsonEnd)
     ELSE jsonText

\* opening minus closing braces among the first i characters
BraceDepth(str, i) ==
  Cardinality({k \in 1..i : str[k] = "{"}) - Cardinality({k \in 1..i : str[k] = "}"})

\* str is one object: it opens with a brace that its last character closes
IsObjectText(str) ==
  /\ Len(str) >= 2
  /\ str[1] = "{"
  /\ \A i \in 1..(Len(str) - 1) : BraceDepth(str, i) >= 1
  /\ BraceDepth(str, Len(str)) = 0

\* JSON.parse returns a value: the text, blanks around it aside, is an object or
\* a number
JsonParses(text) ==
  LET t == Trim(text)
  IN \/ IsObjectText(t)
     \/ t # <<>> /\ \A i \in 1..Len(t) : t[i] = "1"

\* execSync returns the classifier's output
analyzeOutput(analysisOutput) ==
  /\ parse.pc \in {"idle", "parsed", "failed"}
  /\ parse' = [pc |-> "output", analysisOutput |-> analysisOutput, jsonText |-> <<>>]

extractJsonText ==
  /\ parse.pc = "output"
  /\ parse' = [parse EXCEPT !.pc = "extracted",
                            !.jsonText = ExtractJsonText(parse.analysisOutput)]

\* JSON.parse(jsonText): a value, or the catch that makes the cycle a failure
\* to parse
jsonParse ==
  /\ parse.pc = "extracted"
  /\ parse' = [parse EXCEPT !.pc = IF JsonParses(parse.jsonText) THEN "parsed" ELSE "failed"]

NextParse ==
  /\ \/ \E analysisOutput \in ClassifierOutputs : analyzeOutput(analysisOutput)
     \/ extractJsonText
     \/ jsonParse
  /\ UNCHANGED <<now, ticks, storeVars, procVars, disp, del, sends, obs, shot, avail, overlap>>

SpecParse == Init /\ [][NextParse]_vars

\* ----------------------------------------------- a target that never works
\* The processor alone, for ever, on one registered target whose every cycle
\* fails: the capture throws, the classifier throws, its output does not
\* parse, or it reports a page that is not a product page. The store is
\* reliable and nobody registers or unsubscribes. To keep the states finite
\* the clock is read relative to NOW(): now stays at BrokenHorizon and a day
\* that passes moves every timestamp of the table one day back, down to 0 (an
\* age of BrokenHorizon or more is past every threshold the store compares
\* with). The rows of screenshots and analysis_results, which the processor
\* never reads again, are dropped when a day passes. The timer fires every
\* five minutes: obs notes whether a run has started since the day began, and
\* no day passes without one.
BrokenHorizon == (MaxAgeDays + 2) * MinutesPerDay

ShiftBack(t, d) == IF t = NULL THEN NULL ELSE IF t < d THEN 0 ELSE t - d

InitBroken ==
  /\ ToolsIdle
  /\ now = BrokenHorizon
  /\ ticks = 0
  /\ \E f \in FrequencyHours : monitored_urls = <<NewUrlRow(f, BrokenHorizon)>>
  /\ user_urls = {<<1, 1>>}
  /\ screenshots = <<>>
  /\ analysis_results = <<>>
  /\ proc = IdleProc
  /\ inflight = [u \in Urls |-> 0]
  /\ sweepInflight = FALSE
  /\ disp = IdleDisp
  /\ del = IdleDel
  /\ sends = <<>>
  /\ obs = FALSE

DayPasses ==
  /\ Quiescent
  /\ obs
  /\ obs' = FALSE
  /\ monitored_urls' =
       [u \in DOMAIN monitored_urls |->
          [monitored_urls[u] EXCEPT !.last_checked = ShiftBack(@, MinutesPerDay),
                                    !.created_at = ShiftBack(@, MinutesPerDay)]]
  /\ screenshots' = <<>>
  /\ analysis_results' = <<>>
  /\ UNCHANGED <<now, ticks, user_urls, procVars, disp, del, sends, toolVars>>

\* the timer of the scheduler fires: a run of processAllDueUrls starts
BrokenRun ==
  /\ \E S \in SUBSET Urls : Settled /\ processAllDueUrls(S)
  /\ obs' = TRUE
  /\ UNCHANGED toolVars

\* the steps of the run, none of them a classification as a product page
BrokenCycle ==
  /\ ProcNext({TRUE})
  /\ ~(proc.pc = "analyze" /\ proc'.pc = "markAnalyzed" /\ proc'.analysis.isProductPage)
  /\ UNCHANGED <<obs, toolVars>>

NextBroken == DayPasses \/ BrokenRun \/ BrokenCycle

\* days pass, the timer fires again and again, and every statement issued
\* completes
SpecBroken ==
  /\ InitBroken
  /\ [][NextBroken]_vars
  /\ SF_vars(DayPasses)
  /\ WF_vars(BrokenRun)
  /\ WF_vars(BrokenCycle)

\* --------------------------------------------------------- the aging sweep
\* One run of the processor, store failures included, on tables of
\* MaxSweepRows rows created on day 0 or day 1 and left in the states the
\* handlers leave a row in, at clock values on day 90 and day 91. An observer
\* notes in obs the runs started and the table as the run found it.
SweepCreated == {0, MinutesPerDay}

SweepClock ==
  {MaxAgeDays * MinutesPerDay, MaxAgeDays * MinutesPerDay + 3 * SixHours,
   (MaxAgeDays + 1) * MinutesPerDay}

SweepRows ==
  UNION {{NewUrlRow(6, c),
          RecordScreenshotRow(NewUrlRow(6, c), c),
          RecordFailedRow(RecordFailedRow(NewUrlRow(6, c), c), c),
          DeactivateRow(RecordScreenshotRow(NewUrlRow(6, c), c)),
          [NewUrlRow(6, c) EXCEPT !.active = FALSE]} : c \in SweepCreated}

InitSweep ==
  /\ ToolsIdle
  /\ now \in SweepClock
  /\ ticks = 0
  /\ monitored_urls \in [1..MaxSweepRows -> SweepRows]
  /\ user_urls = {}
  /\ screenshots = <<>>
  /\ analysis_results = <<>>
  /\ proc = IdleProc
  /\ inflight = [u \in 1..MaxSweepRows |-> 0]
  /\ sweepInflight = FALSE
  /\ disp = IdleDisp
  /\ del = IdleDel
  /\ sends = <<>>
  /\ obs = [runs |-> 0, before |-> monitored_urls]

NextSweep ==
  /\ \/ /\ \E S \in SUBSET DOMAIN monitored_urls : Settled /\ processAllDueUrls(S)
        /\ obs.runs < MaxSweepRuns
        /\ obs' = [runs |-> obs.runs + 1, before |-> monitored_urls]
     \/ ProcNext(BOOLEAN) /\ UNCHANGED obs
  /\ UNCHANGED toolVars

SpecSweep == InitSweep /\ [][NextSweep]_vars

\* ================================================================ claims
UrlIds == DOMAIN monitored_urls

ResultIds == DOMAIN analysis_results

\* the target of result r, as the join of getUnsentSaleNotifications sees it
UrlRowOfResult(r) == monitored_urls[UrlOfResult(r)]

\* ---------------------------------------------------------------- C1
\* C1: in every reachable state of the whole system a target with active = TRUE
\* has failed_attempts < 3; and a step that changes a target's status to 'error'
\* is an executed recordFailedScreenshotAttempt that leaves failed_attempts one
\* higher and >= 3, and leaves active = FALSE.
C1_ActiveImpliesBelowThreshold ==
  /\ [](\A u \in UrlIds :
          monitored_urls[u].active => monitored_urls[u].failed_attempts < FailureThreshold)
  /\ [][\A u \in UrlIds :
          (monitored_urls[u].status # "error" /\ monitored_urls'[u].status = "error")
            => /\ recordFailedScreenshotAttempt(u, TRUE)
               /\ monitored_urls'[u].failed_attempts = monitored_urls[u].failed_attempts + 1
               /\ monitored_urls'[u].failed_attempts >= FailureThreshold
               /\ monitored_urls'[u].active = FALSE]_vars

\* a target a third failed attempt has put in 'error'
C1_Witness ==
  \E u \in UrlIds :
    /\ monitored_urls[u].status = "error"
    /\ monitored_urls[u].failed_attempts = FailureThreshold
    /\ ~monitored_urls[u].active

\* ---------------------------------------------------------------- C2
\* C2: once three consecutive cycles of a target that began active with
\* failed_attempts = 0 have each captured, parsed and classified the page as not
\* a product page (and every statement they issued has executed), the target has
\* status 'error', active = FALSE, and no due selection returns it.
C2_ThreeNotProductCyclesDeactivate ==
  ( /\ Len(obs) = 3
    /\ \A i \in 1..3 : obs[i].outcome = "not_product_page"
    /\ obs[1].before = 0
    /\ proc.pc = "idle"
    /\ Settled )
  => /\ monitored_urls[obs[1].url].status = "error"
     /\ ~monitored_urls[obs[1].url].active
     /\ \A S \in DueSelections(monitored_urls, now + SixHours) : obs[1].url \notin S

\* ---------------------------------------------------------------- C3
\* C3: when a cycle run in isolation has ended and every statement it issued
\* has executed, the target's failed_attempts is 0 if the cycle stored an
\* analysis result, and otherwise one more than when the cycle began.
C3_CycleEffectOnFailedAttempts ==
  ( /\ obs # <<>>
    /\ proc.pc = "idle"
    /\ Settled )
  => LET c == obs[Len(obs)]
         fa == monitored_urls[c.url].failed_attempts
     IN IF c.persisted THEN fa = 0 ELSE fa = c.before + 1

\* ---------------------------------------------------------------- C4
\* C4: every url getUrlsToProcess returns is active and either was never
\* checked or was last checked at least frequency_hours whole hours ago, and it
\* returns at most 10 urls.
C4_DueSelectionSound ==
  proc.pc = "capture"
  => /\ Len(proc.queue) <= BatchLimit
     /\ \A i \in DOMAIN proc.queue :
          LET row == monitored_urls[proc.queue[i]]
          IN /\ row.active = TRUE
             /\ \/ row.last_checked = NULL
                \/ \E h \in 0..(now \div MinutesPerHour) :
                     /\ h * MinutesPerHour <= now - row.last_checked
                     /\ now - row.last_checked < (h + 1) * MinutesPerHour
                     /\ h >= row.frequency_hours

\* a batch of 10 selected while more rows were due, inactive rows and rows
\* checked less than their period ago being in the table
C4_Witness ==
  /\ proc.pc = "capture"
  /\ Len(proc.queue) = BatchLimit
  /\ \E u \in UrlIds :
       /\ monitored_urls[u].active
       /\ monitored_urls[u].last_checked = NULL
       /\ \A i \in DOMAIN proc.queue : proc.queue[i] # u
  /\ \E u \in UrlIds : ~monitored_urls[u].active
  /\ \E u \in UrlIds :
       /\ monitored_urls[u].active
       /\ monitored_urls[u].last_checked # NULL
       /\ now - monitored_urls[u].last_checked
            < monitored_urls[u].frequency_hours * MinutesPerHour

\* ---------------------------------------------------------------- C5
\* C5: a dispatch that has set notification_sent for a result after a fan-out
\* does not go on, or end, without the result's target being inactive and
\* 'paused': the two writes take effect together or not at all.
C5_MarkedSentMeansDeactivated ==
  [][(disp.pc = "deactivate" /\ disp'.pc # "deactivate")
       => /\ ~monitored_urls'[UrlOfResult(disp.cur)].active
          /\ monitored_urls'[UrlOfResult(disp.cur)].status = "paused"]_vars

\* ---------------------------------------------------------------- C6
\* the dispatcher's last send of a fan-out is done in this step, and some send
\* of the fan-out, this one or an earlier one, was refused
FanOutEndsWithFailure ==
  /\ disp.pc = "send"
  /\ disp'.pc # "send"
  /\ disp' # disp
  /\ disp.failedTo # {} \/ sends' = sends

\* C6: a dispatch reaches its two writes only if no send of the fan-out was
\* refused; a fan-out in which a send was refused ends with the result still
\* unsent and no table changed; and a run that starts takes up every unsent
\* on-sale result, and sends to every current subscriber of a result's target,
\* those a former run has mailed included.
C6_FailedSendLeavesResultUnsent ==
  /\ [](disp.pc \in {"mark", "deactivate"} => disp.failedTo = {})
  /\ [][FanOutEndsWithFailure
          => /\ disp'.pc \notin {"mark", "deactivate", "markUnwatched"}
             /\ ~analysis_results'[disp.cur].notification_sent
             /\ analysis_results' = analysis_results
             /\ monitored_urls' = monitored_urls]_vars
  /\ [][(disp.pc = "idle" /\ disp'.pc # "idle")
          => disp'.queue = {r \in ResultIds : /\ analysis_results[r].is_on_sale
                                              /\ ~analysis_results[r].notification_sent}]_vars
  /\ [][(disp.pc = "getUsers" /\ disp'.pc = "send")
          => disp'.todo = {u \in Subscribers : <<u, UrlOfResult(disp'.cur)>> \in user_urls}]_vars

\* a later run sends again to a subscriber an earlier run has mailed, a send
\* to the other subscriber having been refused
C6_Witness ==
  /\ disp.pc = "send"
  /\ ~analysis_results[disp.cur].notification_sent
  /\ Cardinality(disp.users) = 2
  /\ \E u \in disp.todo : Sent(disp.cur, u) >= 1
  /\ \E u \in disp.users : Sent(disp.cur, u) = 0

\* ---------------------------------------------------------------- C7
\* C7 as stated: once a run has had every send of a result's fan-out accepted
\* (the observer has the result in obs), no later step sends for that result.
C7_NoSendAfterFullySentRun ==
  [][\A r \in obs : \A u \in Subscribers : Sent(r, u)' = Sent(r, u)]_vars

\* C7: once notification_sent is set for a result, no step sends for that
\* result, however many dispatch runs follow.
C7_NoSendOnceMarkedSent ==
  [][\A r \in ResultIds :
       analysis_results[r].notification_sent
         => \A u \in Subscribers : Sent(r, u)' = Sent(r, u)]_vars

\* a run that started after a result was marked sent is sending for another
\* result, the target still having subscribers
C7_Witness ==
  \E r \in ResultIds :
    /\ analysis_results[r].notification_sent
    /\ analysis_results[r].is_on_sale
    /\ \E u \in Subscribers : Sent(r, u) >= 1
    /\ disp.pc = "send"
    /\ disp.cur # r
    /\ UrlOfResult(disp.cur) = UrlOfResult(r)

\* ---------------------------------------------------------------- C8
\* C8 as stated: no subscriber has more than one accepted mail for a result,
\* and when a dispatch has marked a result sent every subscriber it resolved
\* for the result has one.
C8_ExactlyOncePerResult ==
  /\ \A r \in ResultIds : \A u \in Subscribers : Sent(r, u) <= 1
  /\ disp.pc = "deactivate" => \A u \in disp.users : Sent(disp.cur, u) = 1

\* C8: a step that sets notification_sent for a result is either the one for a
\* target found without subscribers, or is taken when every subscriber the run
\* resolved for the result has at least one accepted mail for it.
C8_AtLeastOnceWhenMarked ==
  [][\A r \in ResultIds :
       (~analysis_results[r].notification_sent /\ analysis_results'[r].notification_sent)
         => /\ disp.cur = r
            /\ \/ disp.pc = "markUnwatched" /\ disp.users = {}
               \/ /\ disp.pc = "mark"
                  /\ disp.users # {}
                  /\ \A u \in disp.users : Sent(r, u) >= 1]_vars

\* a result marked sent after a retry: both subscribers have a mail, one has two
C8_Witness ==
  /\ disp.pc = "deactivate"
  /\ analysis_results[disp.cur].notification_sent
  /\ Cardinality(disp.users) = 2
  /\ \A u \in disp.users : Sent(disp.cur, u) >= 1
  /\ \E u \in disp.users : Sent(disp.cur, u) = 2

\* ---------------------------------------------------------------- C9
\* C9: while a target is 'paused' (a dispatch has deactivated it and nobody has
\* registered it again), no mail is sent for any result of that target.
C9_NoAlertWhilePaused ==
  [][\A r \in ResultIds : \A u \in Users :
       UrlRowOfResult(r).status = "paused" => Sent(r, u)' = Sent(r, u)]_vars

\* ---------------------------------------------------------------- C10
\* C10: a step that takes a target from active = FALSE to active = TRUE is a
\* registration of that target.
C10_OnlyRegistrationActivates ==
  [][\A u \in UrlIds :
       (~monitored_urls[u].active /\ monitored_urls'[u].active)
         => \E f \in FrequencyHours, user \in Users : addMonitoredUrl(u, f, user)]_vars

\* ---------------------------------------------------------------- C11
\* C11: in every reachable state every target has active = TRUE exactly when
\* its status is 'active' (neither 'paused' nor 'error').
C11_ActiveIffStatusActive ==
  \A u \in UrlIds : monitored_urls[u].active <=> monitored_urls[u].status = "active"

\* ---------------------------------------------------------------- C12
\* C12: in a batch run no cycle starts twice, and when the run is over the
\* cycle of every target the due selection returned has started once.
C12_EveryDueTargetStartedOnce ==
  /\ \A u \in obs.batch : obs.started[u] <= 1
  /\ proc.pc = "idle" => \A u \in obs.batch : obs.started[u] = 1

\* ---------------------------------------------------------------- C13
\* C13: while the cycle of one target of a batch is running, no store write
\* issued by the cycle of another target is still to be executed.
C13_NoWritePendingFromEarlierCycle ==
  proc.pc # "idle" => \A u \in DOMAIN inflight : u # proc.url => inflight[u] = 0

\* ---------------------------------------------------------------- C14
\* C14: a step that commits a registration of a url by a user leaves the url's
\* row with last_checked NULL, failed_attempts 0, status 'active', active TRUE
\* and the frequency asked for, whatever the row was before; leaves exactly one
\* subscription of that user to that url; and changes no other row and no other
\* subscription.
C14_RegistrationRearmsTarget ==
  [][\A url \in Urls, f \in FrequencyHours, user \in Users :
       addMonitoredUrl(url, f, user)
         => /\ url \in DOMAIN monitored_urls'
            /\ monitored_urls'[url].last_checked = NULL
            /\ monitored_urls'[url].failed_attempts = 0
            /\ monitored_urls'[url].status = "active"
            /\ monitored_urls'[url].active = TRUE
            /\ monitored_urls'[url].frequency_hours = f
            /\ Cardinality({l \in user_urls' : l[1] = user /\ l[2] = url}) = 1
            /\ user_urls' \ {<<user, url>>} = user_urls \ {<<user, url>>}
            /\ \A u \in UrlIds \ {url} : monitored_urls'[u] = monitored_urls[u]]_vars

\* a target registered again after it had been checked: the row is as new,
\* and a capture record of an earlier cycle is there
C14_Witness ==
  \E u \in UrlIds :
    /\ monitored_urls[u].last_checked = NULL
    /\ monitored_urls[u].failed_attempts = 0
    /\ monitored_urls[u].status = "active"
    /\ monitored_urls[u].active
    /\ \E i \in DOMAIN screenshots : screenshots[i].url_id = u
    /\ <<1, u>> \in user_urls

\* ---------------------------------------------------------------- C15
\* C15: the DELETE of an unsubscribe removes the user's subscription and
\* nothing else; its count goes on to the deactivation exactly when no
\* subscription of the target is left, and otherwise the call ends with every
\* table as it was; the deactivation sets the target's active to FALSE and
\* changes nothing else: the row, its capture records and its analysis results
\* stay.
C15_UnsubscribeDeactivatesOnLast ==
  [][/\ \A user \in Subscribers, url \in Urls :
          deleteUserUrl(user, url, TRUE)
            => /\ user_urls' = {l \in user_urls : ~(l[1] = user /\ l[2] = url)}
               /\ UNCHANGED <<monitored_urls, screenshots, analysis_results>>
     /\ deleteUserUrlCount(TRUE)
          => /\ del'.pc = "deactivate" <=> ~(\E l \in user_urls : l[2] = del.url)
             /\ del'.pc # "deactivate" => del'.pc = "idle"
             /\ UNCHANGED <<monitored_urls, user_urls, screenshots, analysis_results>>
     /\ deleteUserUrlDeactivate(TRUE)
          => /\ DOMAIN monitored_urls' = DOMAIN monitored_urls
             /\ \A u \in UrlIds :
                  monitored_urls'[u] =
                    IF u = del.url
                    THEN [frequency_hours |-> monitored_urls[u].frequency_hours,
                          last_checked |-> monitored_urls[u].last_checked,
                          created_at |-> monitored_urls[u].created_at,
                          active |-> FALSE,
                          status |-> monitored_urls[u].status,
                          failed_attempts |-> monitored_urls[u].failed_attempts]
                    ELSE monitored_urls[u]
             /\ UNCHANGED <<user_urls, screenshots, analysis_results>>
     /\ (del' # del /\ del.pc # "deactivate") => monitored_urls' = monitored_urls]_vars

\* both subscribers of a target, each mailed once, have unsubscribed one after
\* the other: the target is inactive with its status as it was, and its result
\* is still stored
C15_Witness ==
  /\ del.pc = "idle"
  /\ \E r \in ResultIds :
       /\ Sent(r, 1) >= 1
       /\ Sent(r, 2) >= 1
       /\ ~analysis_results[r].notification_sent
       /\ ~(\E l \in user_urls : l[2] = UrlOfResult(r))
       /\ ~UrlRowOfResult(r).active
       /\ UrlRowOfResult(r).status = "active"

\* ---------------------------------------------------------------- C16
\* C16: the dispatcher takes the no-subscriber path for a result exactly when
\* the subscriber query returns no row for the result's target; on that path it
\* sends no mail and writes no target and no subscription; its one write sets
\* notification_sent of that result; and it goes on to the results of its list
\* it has not handled yet.
C16_NoSubscriberResultMarkedSent ==
  [][/\ (disp.pc = "getUsers" /\ disp'.pc \in {"markUnwatched", "send"})
          => /\ analysis_results[disp'.cur].is_on_sale
             /\ ~analysis_results[disp'.cur].notification_sent
             /\ disp'.pc = "markUnwatched"
                  <=> ~(\E l \in user_urls : l[2] = UrlOfResult(disp'.cur))
     /\ (disp.pc = "markUnwatched" /\ disp' # disp)
          => /\ sends' = sends
             /\ UNCHANGED <<monitored_urls, user_urls, screenshots>>
             /\ \A r \in ResultIds \ {disp.cur} : analysis_results'[r] = analysis_results[r]
     /\ markNotificationSentUnwatched(TRUE)
          => /\ analysis_results'[disp.cur].notification_sent
             /\ disp'.queue = disp.queue \ {disp.cur}
             /\ disp'.pc = IF disp'.queue = {} THEN "idle" ELSE "getUsers"]_vars

\* a result marked sent with no mail sent for it to anyone, its target still
\* active, and the run gone on to the next result of its list
C16_Witness ==
  \E r \in ResultIds :
    /\ analysis_results[r].notification_sent
    /\ \A u \in Subscribers : Sent(r, u) = 0
    /\ UrlRowOfResult(r).active
    /\ UrlRowOfResult(r).status = "active"
    /\ disp.pc = "getUsers"
    /\ disp.queue # {}
    /\ r \notin disp.queue

\* ---------------------------------------------------------------- C17
\* C17: a fan-out starts with every subscriber of the target still to be
\* mailed; each of its steps is one attempt, accepted or refused, for one
\* subscriber not attempted yet; after an attempt, refused or not, the fan-out
\* goes on with the same result and the subscribers left, and it ends only
\* with the attempt for the last of them. A refused mail ends neither the
\* fan-out nor the run.
C17_SendFailureIsolated ==
  /\ [](disp.pc = "send"
          => /\ disp.todo # {}
             /\ disp.todo \subseteq disp.users
             /\ disp.failedTo \subseteq disp.users \ disp.todo)
  /\ [][(disp.pc = "getUsers" /\ disp'.pc = "send")
          => /\ disp'.users = {u \in Subscribers : <<u, UrlOfResult(disp'.cur)>> \in user_urls}
             /\ disp'.todo = disp'.users]_vars
  /\ [][(disp.pc = "send" /\ disp' # disp)
          => \E u \in disp.todo :
               /\ \/ sends' = sends
                  \/ /\ <<disp.cur, u>> \in DOMAIN sends'
                     /\ sends'[<<disp.cur, u>>] = Sent(disp.cur, u) + 1
                     /\ \A p \in DOMAIN sends : p # <<disp.cur, u>> => sends'[p] = sends[p]
               /\ IF disp.todo = {u}
                  THEN disp'.pc # "send"
                  ELSE /\ disp'.pc = "send"
                       /\ disp'.cur = disp.cur
                       /\ disp'.users = disp.users
                       /\ disp'.todo = disp.todo \ {u}]_vars

\* a mail of the fan-out was refused and the dispatcher is at the send to the
\* next subscriber
C17_Witness ==
  /\ disp.pc = "send"
  /\ disp.failedTo # {}
  /\ disp.todo # {}
  /\ \A u \in disp.failedTo : Sent(disp.cur, u) = 0

\* C18: a call of takeScreenshot launches at most two browsers; the second is
\* launched only after a first raw snapshot below the minimum size; and once
\* the second snapshot is below the minimum too, the call goes on to resize
\* what it has and returns the path of the stored image: from there it throws
\* only if the image library fails.
C18_AtMostTwoAttempts ==
  /\ [](/\ shot.launched <= 2
        /\ shot.launched = 2 =>
             /\ shot.firstSize # NULL
             /\ shot.firstSize < MinSizeKB * BytesPerKB
        /\ (shot.closed = 2 /\ shot.secondSize < MinSizeKB * BytesPerKB) =>
             \/ shot.pc \in {"resize", "returned"}
             \/ shot.pc = "thrown" /\ shot.failedAt = "resize"
        /\ shot.pc = "returned" => shot.stored)
  /\ [][(/\ shot.pc = "resize"
         /\ shot.launched = 2
         /\ shot.secondSize < MinSizeKB * BytesPerKB
         /\ resize(TRUE)) => shot'.pc = "returned" /\ shot'.stored]_vars

\* a call has returned the stored image after two snapshots below the minimum
C18_Witness ==
  /\ shot.pc = "returned"
  /\ shot.stored
  /\ shot.launched = 2
  /\ shot.firstSize < MinSizeKB * BytesPerKB
  /\ shot.secondSize < MinSizeKB * BytesPerKB

\* C19: when a call of takeScreenshot has returned or thrown, every browser
\* it launched has been closed.
C19_BrowsersClosedOnExit ==
  shot.pc \in {"returned", "thrown"} => shot.closed = shot.launched

\* the objects of an output as the claim reads them: str[i..j] opens at i and
\* its braces, nested ones matched, close at j
BalancedAt(str, i, j) == i < j /\ IsObjectText(SubSeq(str, i, j))

HasBalancedObject(str) == \E i, j \in 1..Len(str) : BalancedAt(str, i, j)

FirstBalancedObject(str) ==
  LET starts == {i \in 1..Len(str) : \E j \in 1..Len(str) : BalancedAt(str, i, j)}
      i == CHOOSE x \in starts : \A y \in starts : x <= y
      j == CHOOSE y \in 1..Len(str) : BalancedAt(str, i, y)
  IN SubSeq(str, i, j)

\* C20: the text handed to JSON.parse is the first balanced {...} substring of
\* the classifier's output, and an output without a balanced object makes the
\* cycle a failure to parse.
C20_ParserGetsFirstBalancedObject ==
  parse.pc \in {"extracted", "parsed", "failed"} =>
    IF HasBalancedObject(parse.analysisOutput)
    THEN parse.jsonText = FirstBalancedObject(parse.analysisOutput)
    ELSE parse.pc # "parsed"

\* C21: a target whose every check cycle fails, and that nobody registers
\* again, eventually is inactive with status 'error', and stays so.
C21_BrokenTargetEndsInError ==
  <>[](~monitored_urls[1].active /\ monitored_urls[1].status = "error")

C23_OneRowUpdatePerCycle == obs.writes <= 1

\* C24: a cycle of a target with last_checked NULL and failed_attempts 0 whose
\* capture succeeds and whose page is classified as a product page leaves the
\* target with last_checked set to the time of the cycle, failed_attempts 0,
\* active and status as they were, one more screenshot row of the target and
\* one more analysis result, of that screenshot, with notification_sent FALSE.
C24_SuccessfulFirstCycle ==
  (/\ obs.outcome = "product_page"
   /\ obs.row.last_checked = NULL
   /\ obs.row.failed_attempts = 0) =>
    /\ monitored_urls[1].last_checked # NULL
    /\ monitored_urls[1].last_checked = obs.at
    /\ monitored_urls[1].failed_attempts = 0
    /\ monitored_urls[1].active = obs.row.active
    /\ monitored_urls[1].status = obs.row.status
    /\ Len(screenshots) = obs.shots + 1
    /\ screenshots[Len(screenshots)].url_id = 1
    /\ Len(analysis_results) = obs.results + 1
    /\ analysis_results[Len(analysis_results)].screenshot_id = Len(screenshots)
    /\ analysis_results[Len(analysis_results)].is_product_page
    /\ ~analysis_results[Len(analysis_results)].notification_sent

\* the first cycle of a target has ended with a product page on sale stored
C24_Witness ==
  /\ obs.outcome = "product_page"
  /\ obs.row.last_checked = NULL
  /\ obs.row.failed_attempts = 0
  /\ proc.pc = "idle"
  /\ Len(analysis_results) = 1
  /\ analysis_results[1].is_on_sale

\* C25: when the capture or the classification of a cycle throws, or the
\* classifier's output does not parse, processUrl catches the error, issues a
\* recordFailedScreenshotAttempt for the target and returns to the loop of the
\* run; a cycle whose capture threw has stored no screenshot row and no
\* analysis result, and one whose classification threw or did not parse has
\* stored no analysis result.
C25_CycleErrorsBecomeFailedAttempts ==
  /\ [](/\ obs.outcome = "capture_throws" =>
             /\ Len(screenshots) = obs.shots
             /\ Len(analysis_results) = obs.results
        /\ obs.outcome \in {"classifier_throws", "unparsable"} =>
             /\ Len(screenshots) = obs.shots + 1
             /\ Len(analysis_results) = obs.results)
  /\ [][(captureUrlScreenshot(FALSE) \/ analyzeThrows \/ analyzeUnparsable) =>
          /\ inflight'[proc.url] >= inflight[proc.url] + 1
          /\ proc'.pc = "idle"
          /\ UNCHANGED storeVars]_vars

\* a capture has thrown in the second cycle of the target and the failed
\* attempt has been recorded
C25_Witness ==
  /\ obs.outcome = "capture_throws"
  /\ obs.cycles = 2
  /\ obs.writes = 1
  /\ monitored_urls[1].failed_attempts = obs.row.failed_attempts + 1

\* C26: an analysis result is stored with notification_sent FALSE; afterwards
\* no row is removed and the only change to a stored row is the dispatcher
\* setting notification_sent of the result it is working on from FALSE to
\* TRUE.
C26_NotificationSentOnlyRises ==
  [][/\ Len(analysis_results') >= Len(analysis_results)
     /\ \A r \in DOMAIN analysis_results :
          \/ analysis_results'[r] = analysis_results[r]
          \/ /\ ~analysis_results[r].notification_sent
             /\ analysis_results'[r] =
                  [screenshot_id |-> analysis_results[r].screenshot_id,
                   is_product_page |-> analysis_results[r].is_product_page,
                   is_on_sale |-> analysis_results[r].is_on_sale,
                   notification_sent |-> TRUE]
             /\ disp.pc \in {"mark", "markUnwatched"}
             /\ disp.cur = r
     /\ \A r \in DOMAIN analysis_results' \ DOMAIN analysis_results :
          ~analysis_results'[r].notification_sent]_vars

\* the dispatcher has marked the first result, and a second one stored by a
\* later cycle is unsent
C26_Witness ==
  /\ Len(analysis_results) = 2
  /\ analysis_results[1].notification_sent
  /\ analysis_results[1].is_on_sale
  /\ ~analysis_results[2].notification_sent

\* C27: a step of a dispatch run changes nothing in the store but
\* notification_sent of the result it is working on and active and status of
\* the target that result belongs to: subscriptions, screenshot rows, the
\* other columns of every target and of every result stay as they were.
C27_DispatchWritesOnlyFlagAndActivity ==
  [][(processUnsentNotifications \/ DispNext) =>
       /\ UNCHANGED <<user_urls, screenshots>>
       /\ DOMAIN monitored_urls' = DOMAIN monitored_urls
       /\ \A u \in DOMAIN monitored_urls :
            /\ monitored_urls'[u].last_checked = monitored_urls[u].last_checked
            /\ monitored_urls'[u].failed_attempts = monitored_urls[u].failed_attempts
            /\ monitored_urls'[u].frequency_hours = monitored_urls[u].frequency_hours
            /\ monitored_urls'[u].created_at = monitored_urls[u].created_at
            /\ monitored_urls'[u] # monitored_urls[u] =>
                 /\ disp.cur \in DOMAIN analysis_results
                 /\ u = screenshots[analysis_results[disp.cur].screenshot_id].url_id
       /\ DOMAIN analysis_results' = DOMAIN analysis_results
       /\ \A r \in DOMAIN analysis_results :
            /\ analysis_results'[r].screenshot_id = analysis_results[r].screenshot_id
            /\ analysis_results'[r].is_product_page = analysis_results[r].is_product_page
            /\ analysis_results'[r].is_on_sale = analysis_results[r].is_on_sale
            /\ analysis_results'[r] # analysis_results[r] => r = disp.cur]_vars

\* a run has mailed every subscriber of a result, marked it and paused its
\* target, whose last_checked and failed_attempts are those of its last cycle
C27_Witness ==
  /\ disp.pc = "idle"
  /\ \E r \in DOMAIN analysis_results :
       /\ analysis_results[r].notification_sent
       /\ \E u \in Subscribers : Sent(r, u) >= 1
  /\ monitored_urls[1].status = "paused"
  /\ ~monitored_urls[1].active
  /\ monitored_urls[1].last_checked # NULL
  /\ user_urls # {}

\* the price-watch pipeline's state read as an availability-watch state:
\* monitored_urls as availability_urls, user_urls as availability_user_urls,
\* screenshots as availability_screenshots, analysis_results as
\* availability_results with is_on_sale as is_available
PriceAsAvailability ==
  [availability_urls |-> monitored_urls,
   availability_user_urls |-> user_urls,
   availability_screenshots |-> screenshots,
   availability_results |->
     [r \in DOMAIN analysis_results |->
        [screenshot_id |-> analysis_results[r].screenshot_id,
         is_product_page |-> analysis_results[r].is_product_page,
         is_available |-> analysis_results[r].is_on_sale,
         notification_sent |-> analysis_results[r].notification_sent]],
   proc |-> [proc EXCEPT !.analysis = AsAvailabilityAnalysis(@)],
   inflight |-> inflight,
   sweepInflight |-> sweepInflight,
   disp |-> disp,
   del |-> del,
   sends |-> sends]

\* C28: given the same registrations, cycle outcomes, mail outcomes and
\* unsubscribes, the availability-watch pipeline is in the state of the
\* price-watch pipeline with is_available for is_on_sale (targets,
\* subscriptions, capture records, results, runs in flight, mails sent), and
\* the two due selections may return the same sets
C28_PipelinesAreTheSameMachine ==
  /\ avail = PriceAsAvailability
  /\ \A S \in SUBSET Urls :
        DueSelection(S, monitored_urls, now)
          <=> AvailabilityDueSelection(S, avail.availability_urls, now)

\* both pipelines have mailed the subscriber for their first result, marked
\* it and paused the target
C28_Witness ==
  /\ Sent(1, 1) = 1
  /\ <<1, 1>> \in DOMAIN avail.sends
  /\ avail.availability_results[1].is_available
  /\ avail.availability_results[1].notification_sent
  /\ avail.availability_urls[1].status = "paused"
  /\ monitored_urls[1].status = "paused"

\* C29: once a cycle has ended as a product page, as not a product page, with
\* the classifier failing (it throws, or its output does not parse) or with
\* the capture failing, and the store has executed the cycle's statement on
\* the target's row, last_checked is the time of the cycle; from then on the
\* due selection returns the target only when frequency_hours whole hours
\* have passed since that time.
C29_EveryOutcomeStampsLastChecked ==
  (/\ obs.outcome \in {"product_page", "not_product_page", "classifier_throws",
                       "unparsable", "capture_throws"}
   /\ obs.writes >= 1) =>
    /\ monitored_urls[1].last_checked = obs.at
    /\ \A S \in SUBSET Urls :
         (DueSelection(S, monitored_urls, now) /\ 1 \in S) =>
           now - obs.at >= monitored_urls[1].frequency_hours * MinutesPerHour

\* six hours after a cycle whose capture failed, a twelve-hour target is
\* active and not due
C29_Witness ==
  /\ obs.outcome = "capture_throws"
  /\ obs.writes = 1
  /\ monitored_urls[1].frequency_hours = 12
  /\ monitored_urls[1].active
  /\ now = obs.at + SixHours
  /\ ~DueSelection({1}, monitored_urls, now)

\* C30: whenever no call of storeAnalysisResults is between its two
\* statements, no screenshot has two analysis results, every analysis result
\* is of a screenshot of the target that was checked, and a screenshot has
\* analyzed = TRUE exactly when an analysis result of it is stored; also
\* after a statement of storeAnalysisResults has failed.
C30_ResultsMatchScreenshots ==
  proc.pc # "insertAnalysis" =>
    /\ \A r1, r2 \in DOMAIN analysis_results :
         analysis_results[r1].screenshot_id = analysis_results[r2].screenshot_id
           => r1 = r2
    /\ \A r \in DOMAIN analysis_results :
         /\ analysis_results[r].screenshot_id \in DOMAIN screenshots
         /\ screenshots[analysis_results[r].screenshot_id].url_id = 1
    /\ \A c \in DOMAIN screenshots :
         screenshots[c].analyzed
           <=> \E r \in DOMAIN analysis_results :
                 analysis_results[r].screenshot_id = c

\* C31: every page2.goto of the retry loop of the second attempt is made with
\* fewer than maxRetries failures so far, so there are at most three; a
\* successful one leaves the loop for the second snapshot; a failed one is
\* followed by another try unless it is the third, which makes takeScreenshot
\* throw the navigation error with no second snapshot taken and no image
\* stored.
C31_NavigationRetriesAtMostThrice ==
  /\ [](/\ shot.retries <= MaxRetries
        /\ (shot.pc = "thrown" /\ shot.retries = MaxRetries) =>
             /\ shot.failedAt = "goto"
             /\ shot.secondSize = NULL
             /\ ~shot.stored)
  /\ [][shot.pc = "gotoRetry" =>
          /\ shot.retries < MaxRetries
          /\ \/ shot'.pc = "screenshot" /\ shot'.retries = shot.retries
             \/ /\ shot'.retries = shot.retries + 1
                /\ shot'.pc = IF shot'.retries = MaxRetries THEN "thrown"
                              ELSE "gotoRetry"]_vars

\* the third navigation of the second attempt has failed
C31_Witness ==
  /\ shot.pc = "thrown"
  /\ shot.launched = 2
  /\ shot.retries = MaxRetries
  /\ shot.failedAt = "goto"

\* C32: when a price-watch cycle whose capture returned a file has ended (and
\* no unlink of the file was refused), the file is no longer on disk, whatever
\* the classification came to, and the screenshot rows stored are still
\* there; every file an availability-watch capture wrote is still on disk.
C32_PriceFilesDeletedAvailabilityFilesKept ==
  /\ (/\ obs.outcome \notin {"none", "running", "process_exit"}
      /\ obs.cur # 0
      /\ ~obs.unlinkFailed) => obs.cur \notin obs.files
  /\ obs.availability_files = 1..obs.captures
  /\ Len(screenshots) <= obs.captures

\* C33: a target that is active and due is eventually selected by a run and
\* has its cycle begun, also when more targets are due than a run selects
\* (stated for the target registered last; the targets are alike).
C33_DueTargetEventuallyChecked ==
  IsDue(monitored_urls[StarveUrls], now)
    ~> (proc.pc # "idle" /\ proc.url = StarveUrls)

\* C34: every result for which a mail has been accepted (a result the
\* dispatcher's selection returned) was stored by a cycle whose classification
\* called the page a product page, that is, by a cycle that issued no
\* recordFailedScreenshotAttempt.
C34_NoAlertForFailedCycle ==
  \A p \in DOMAIN sends : analysis_results[p[1]].is_product_page

\* C35: whenever no unsubscribe is between its statements, every target with
\* active = TRUE has at least one subscription.
C35_ActiveTargetsHaveSubscribers ==
  del.pc = "idle" =>
    \A u \in DOMAIN monitored_urls :
      monitored_urls[u].active => UsersMonitoringUrl(user_urls, u) # {}

\* C36: the last statement of an unsubscribe never sets active = FALSE on a
\* target that has a subscriber when the statement is executed: if a
\* registration of the target by another user completes while the unsubscribe
\* of its only subscriber is between its statements, the target ends with
\* that user's subscription and active = TRUE.
C36_UnsubscribeSparesSubscribedTarget ==
  [][(/\ del.pc = "deactivate"
      /\ del'.pc = "idle"
      /\ monitored_urls[del.url].active
      /\ ~monitored_urls'[del.url].active)
       => UsersMonitoringUrl(user_urls, del.url) = {}]_vars

\* C37: no two runs have a cycle of the same target in flight: a run does not
\* select a target whose cycle another run has begun and not yet ended.
C37_OneCycleInFlightPerTarget ==
  ~(/\ proc.pc # "idle"
    /\ overlap.pc # "idle"
    /\ proc.url = overlap.url)

\* C38: a dispatch run ends only when no other unsent result of its list is
\* left: a store error while one result is handled does not end the run while
\* other results of the same run are still to be handled.
C38_StoreErrorSparesRemainingResults ==
  [][(disp.pc # "idle" /\ disp'.pc = "idle") => Cardinality(disp.queue) <= 1]_vars
====
